---------------------------- MODULE Spec2Model ----------------------------
(***************************************************************************)
(* State sync core of chain/client/src/sync/state.rs: the per-shard state  *)
(* machine driven by StateSync::run, the request dispatcher, the external   *)
(* storage fetch tasks, the network send continuations and the two intake   *)
(* paths (MPSC drain and peer responses).                                   *)
(***************************************************************************)
EXTENDS Integers, Sequences, FiniteSets, Bags, TLC

(***************************************************************************)
(* Bounds of the model and the configuration under which it is explored.   *)
(***************************************************************************)
\* pub const MAX_STATE_PART_REQUEST: u64 = 16
MAX_STATE_PART_REQUEST == 16
\* StateSync.timeout (tau), in clock ticks
Timeout == 1
\* ExternalStorageConfig.num_concurrent_requests: permits of the semaphore
NumPermits == 1
\* ExternalStorageConfig.external_storage_fallback_threshold (T)
PeerAttemptsThreshold == 1
\* largest state_requests_count a slot reaches
MaxRequests == 2
\* largest number of external fetch tasks alive at once
MaxTasks == 2
\* longest MPSC queue
MaxQueue == 2
\* num_state_parts of the header of the shard with many parts
ManyParts == 17

\* number of block hashes of the chain store
MaxBlocks == 4
\* number of epochs the blocks belong to
MaxEpochs == 2

None == "None"
Shards == {0, 1, 2}
Hashes == {"H1", "H2", "H3"}
PeerIds == {"p1", "p2"}
\* ShardStateSyncResponseHeader::num_state_parts of each shard's header
NumStateParts(shard_id) ==
    CASE shard_id = 0 -> 2
      [] shard_id = 1 -> 1
      [] shard_id = 2 -> ManyParts

VARIABLES
    external,      \* StateSync.external.is_some(): chosen at construction
    tracking_shards, \* the shards the caller syncs: run's tracking_shards
    sync_hash,     \* the sync_hash the caller passes to run
    sync_status,   \* the caller's HashMap<u64, ShardSyncDownload>
    mpsc,          \* state_parts_mpsc_tx/rx: messages posted, not yet drained
    tasks,         \* bag of spawned external fetch tasks
    permits,       \* StateSyncExternal.semaphore.available_permits()
    conts,         \* pending network send futures holding a slot's run_me
    state_headers, \* chain store: persisted state headers, <<hash, shard>>
    state_parts,   \* chain store: DBCol::StateParts rows, <<hash, shard, idx>>
    apply_results, \* StateSync.state_parts_apply_results
    memtrie_results, \* StateSync.load_memtrie_results
    apply_reqs,    \* ApplyStatePartsRequest handed to the scheduler, unanswered
    memtrie_reqs,  \* LoadMemtrieRequest handed to the scheduler, unanswered
    panicked,      \* run hit a panic!: the process is gone
    block_headers, \* chain store: block headers, hash -> header
    epoch_start    \* the last get_epoch_start_sync_hash call and its result

vars == <<external, tracking_shards, sync_hash, sync_status, mpsc, tasks, permits, conts,
          state_headers, state_parts, apply_results, memtrie_results,
          apply_reqs, memtrie_reqs, panicked, block_headers, epoch_start>>

\* what the state machine of run leaves alone
chain_vars == <<block_headers, epoch_start>>

(***************************************************************************)
(* near_client_primitives::types::{DownloadStatus, ShardSyncDownload}.     *)
(* A slot keeps, in place of prev_update_time, the time elapsed since it:   *)
(* elapsed = now - prev_update_time, counted up to Timeout + 1, which is    *)
(* all that now - prev_update_time > timeout reads.  A slot created or      *)
(* re-armed at now has elapsed = 0.                                         *)
(***************************************************************************)
new_download_status ==
    [run_me |-> TRUE, done |-> FALSE, error |-> FALSE,
     state_requests_count |-> 0, last_target |-> None, elapsed |-> 0]

new_download_state_header ==
    [status |-> "StateDownloadHeader", downloads |-> <<new_download_status>>]

new_download_state_parts(num_parts) ==
    [status |-> "StateDownloadParts",
     downloads |-> [i \in 1..num_parts |-> new_download_status]]

\* a variant that leaves a slot behind
stale_download(status) == [status |-> status, downloads |-> <<new_download_status>>]

\* ShardSyncDownload { downloads: vec![], status }
empty_download(status) == [status |-> status, downloads |-> <<>>]

\* the part index (0-based) of the i-th element of downloads
Slots(d) == DOMAIN d.downloads


(***************************************************************************)
(* The state an operation works on, as one record: the caller's status map *)
(* (ss), the queue (q), the chain store (hdrs, parts), the fetch tasks,     *)
(* the result maps, and what the operation emitted so far: network          *)
(* requests (sent), StatePartReceived events, chain.set_state_header and    *)
(* chain.set_state_part calls, STATE_SYNC_DISCARD_PARTS increments, and the *)
(* failure that ended it ("" while none); stale counts the messages of     *)
(* another sync_hash the drain skipped.                                     *)
(***************************************************************************)
World ==
    [ss |-> sync_status, q |-> mpsc, tasks |-> tasks, permits |-> permits,
     conts |-> conts, hdrs |-> state_headers, parts |-> state_parts,
     apply_res |-> apply_results, mem_res |-> memtrie_results,
     apply_reqs |-> apply_reqs, mem_reqs |-> memtrie_reqs,
     sent |-> <<>>, events |-> {}, calls |-> 0, discard |-> <<>>,
     cleared |-> {}, finalized |-> {}, stale |-> 0, err |-> "", all_done |-> TRUE]

\* writes slot i of shard s
SetSlot(w, s, i, dl) == [w EXCEPT !.ss[s].downloads[i] = dl]

\* replaces the shard record; the run_me atomics of the dropped slots are
\* then referenced by their pending send futures alone
SetShard(w, s, d) ==
    [w EXCEPT !.ss = [x \in (DOMAIN w.ss) \cup {s} |-> IF x = s THEN d ELSE w.ss[x]],
              !.conts = {c \in w.conts : c.shard_id # s}]

\* ShardSyncDownload::get_header_download_mut
get_header_download(d) ==
    IF d.status = "StateDownloadHeader" /\ Len(d.downloads) >= 1 THEN 1 ELSE 0

\* a variant that lets every message through
other_epoch_never(msg_sync_hash, hash) == FALSE

\* msg_sync_hash != sync_hash: "Received message for other epoch."
other_epoch(msg_sync_hash, hash) == msg_sync_hash # hash

\* a variant that takes a completion for a closed slot too
already_done_never(dl) == FALSE

\* the done test that guards a slot against a further completion
already_done(dl) == dl.done

\* process_download_response: Ok sets done, Err clears it
process_download_response(w, s, i, ok) ==
    IF i = 0 THEN w
    ELSE SetSlot(w, s, i, [w.ss[s].downloads[i] EXCEPT !.done = ok])

\* a variant that finds the slot the failed fetch was for
err_download_named(d, m) ==
    IF d.status = "StateDownloadHeader" /\ m.part_id = -1 THEN get_header_download(d)
    ELSE IF d.status = "StateDownloadParts" /\ m.part_id + 1 \in Slots(d) THEN m.part_id + 1
    ELSE 0

\* Err(err) => (Err(err), None): the download an Err result is applied to,
\* 0 for none
err_download(d, m) == 0

\* the body of the loop of process_downloaded_parts, for one message m;
\* hdr_ok is the outcome of chain.set_state_header
process_message(w, hash, m, hdr_ok) ==
    IF other_epoch(m.sync_hash, hash) THEN [w EXCEPT !.stale = @ + 1]
    ELSE IF m.shard_id \notin DOMAIN w.ss THEN w
    ELSE LET s == m.shard_id
             d == w.ss[s]
         IN  CASE m.result = "Err" ->
                    process_download_response(w, s, err_download(d, m), FALSE)
               [] m.result = "StateHeader" ->
                    IF d.status # "StateDownloadHeader" THEN w
                    ELSE LET i == get_header_download(d) IN
                         IF i = 0 \/ already_done(d.downloads[i]) THEN w
                         ELSE LET w1 == [w EXCEPT !.calls = @ + 1,
                                            !.hdrs = IF hdr_ok THEN @ \cup {<<hash, s>>} ELSE @]
                              IN  process_download_response(w1, s, i, hdr_ok)
               [] m.result = "StatePart" ->
                    IF d.status # "StateDownloadParts" THEN w
                    ELSE LET i == IF m.part_id + 1 \in Slots(d) THEN m.part_id + 1 ELSE 0
                         IN  process_download_response(w, s, i, TRUE)

RECURSIVE drain(_, _, _, _)
drain(w, hash, q, ok) ==
    IF q = <<>> THEN w
    ELSE drain(process_message(w, hash, Head(q), ok[Head(q).shard_id]), hash, Tail(q), ok)

\* process_downloaded_parts: try_iter() takes every pending message
process_downloaded_parts(w, hash, ok) ==
    [drain(w, hash, w.q, ok) EXCEPT !.q = <<>>]

(***************************************************************************)
(* The per-shard handlers of sync_shards_status.  Each returns the world   *)
(* and the flags of its caller: timeout (download_timeout), run            *)
(* (run_shard_state_download) and done (shard_sync_done).                   *)
(***************************************************************************)
Ret(w, timeout, run, done) == [w |-> w, timeout |-> timeout, run |-> run, done |-> done]
Fail(w, kind) == Ret([w EXCEPT !.err = kind], FALSE, FALSE, FALSE)

\* EpochManagerAdapter::will_shard_layout_change(prev_hash)
will_shard_layout_change(hash) == hash = "H2"

\* Chain::clear_downloaded_parts(shard_id, sync_hash, num_parts)
clear_downloaded_parts(w, s, hash, num_parts) ==
    [w EXCEPT !.parts = @ \ {<<hash, s, i>> : i \in 0..(num_parts - 1)},
              !.cleared = @ \cup {s}]

\* a variant that retries after the timeout alone
retry_header_timeout(dl) ==
    IF dl.elapsed > Timeout
    THEN [dl EXCEPT !.run_me = TRUE, !.error = FALSE, !.elapsed = 0]
    ELSE dl

\* download_timeout || download.error re-arms the header slot
retry_header(dl) ==
    IF dl.elapsed > Timeout \/ dl.error
    THEN [dl EXCEPT !.run_me = TRUE, !.error = FALSE, !.elapsed = 0]
    ELSE dl

\* a variant that goes by the header in the chain store
header_ready_stored(w, s, hash) == <<hash, s>> \in w.hdrs

\* if download.done
header_ready(w, s, hash) == w.ss[s].downloads[1].done

\* a variant that asks for a request while the header is not done
sync_shards_download_header_status_eager(w, s, hash) ==
    LET download == w.ss[s].downloads[1] IN
    IF header_ready(w, s, hash)
    THEN IF <<hash, s>> \notin w.hdrs THEN Fail(w, "Err")
         ELSE Ret(SetShard(w, s, new_download_state_parts(NumStateParts(s))),
                  FALSE, TRUE, FALSE)
    ELSE LET dl == retry_header(download) IN
         Ret(SetSlot(w, s, 1, dl), download.elapsed > Timeout, TRUE, FALSE)

sync_shards_download_header_status(w, s, hash) ==
    LET download == w.ss[s].downloads[1] IN
    IF header_ready(w, s, hash)
    THEN IF <<hash, s>> \notin w.hdrs THEN Fail(w, "Err")
         ELSE Ret(SetShard(w, s, new_download_state_parts(NumStateParts(s))),
                  FALSE, TRUE, FALSE)
    ELSE LET dl == retry_header(download) IN
         Ret(SetSlot(w, s, 1, dl), download.elapsed > Timeout, dl.run_me, FALSE)

\* part_timeout || part_download.last_target.is_some() inside
\* part_timeout || part_download.error re-arms a part slot
retry_part(dl) ==
    LET part_timeout == dl.elapsed > Timeout IN
    IF (part_timeout \/ dl.error) /\ (part_timeout \/ dl.last_target # None)
    THEN [dl EXCEPT !.run_me = TRUE, !.error = FALSE, !.elapsed = 0]
    ELSE dl

\* a variant that is content with one part
parts_done_any(d) == \E i \in Slots(d) : d.downloads[i].done

\* parts_done of sync_shards_download_parts_status
parts_done(d) == \A i \in Slots(d) : d.downloads[i].done

sync_shards_download_parts_status(w, s) ==
    LET d == w.ss[s]
        downloads == [i \in Slots(d) |->
                        IF d.downloads[i].done THEN d.downloads[i]
                        ELSE retry_part(d.downloads[i])]
        download_timeout == \E i \in Slots(d) :
            /\ ~d.downloads[i].done
            /\ d.downloads[i].elapsed > Timeout
        run == \E i \in Slots(d) : ~downloads[i].done /\ downloads[i].run_me
        w1 == [w EXCEPT !.ss[s].downloads = downloads]
    IN  IF parts_done(d)
        THEN Ret(SetShard(w1, s, empty_download("StateApplyScheduling")),
                 download_timeout, run, FALSE)
        ELSE Ret(w1, download_timeout, run, FALSE)

\* a variant that starts over and keeps the downloaded parts
reset_to_header_keep(w, s, hash) ==
    LET w1 == SetShard([w EXCEPT !.discard = Append(@, s)], s,
                       new_download_state_header)
    IN  IF <<hash, s>> \notin w1.hdrs THEN [w1 EXCEPT !.err = "Err"] ELSE w1

\* the Err arm of sync_shards_apply_scheduling_status, and the error path of
\* sync_shards_apply_finalizing_status
reset_to_header(w, s, hash) ==
    LET w1 == SetShard([w EXCEPT !.discard = Append(@, s)], s,
                       new_download_state_header)
    IN  IF <<hash, s>> \notin w1.hdrs THEN [w1 EXCEPT !.err = "Err"]
        ELSE clear_downloaded_parts(w1, s, hash, NumStateParts(s))

\* a variant that asks for the header in the call that resets the shard
sync_shards_apply_scheduling_status_run(w, s, hash, sched_ok) ==
    IF <<hash, s>> \notin w.hdrs THEN Fail(w, "Err")
    ELSE IF sched_ok
    THEN Ret(SetShard([w EXCEPT !.apply_reqs = @ \cup {s}], s,
                      empty_download("StateApplyInProgress")),
             FALSE, FALSE, FALSE)
    ELSE Ret(reset_to_header(w, s, hash), FALSE, TRUE, FALSE)

\* sched_ok is the outcome of chain.schedule_apply_state_parts
sync_shards_apply_scheduling_status(w, s, hash, sched_ok) ==
    IF <<hash, s>> \notin w.hdrs THEN Fail(w, "Err")
    ELSE IF sched_ok
    THEN Ret(SetShard([w EXCEPT !.apply_reqs = @ \cup {s}], s,
                      empty_download("StateApplyInProgress")),
             FALSE, FALSE, FALSE)
    ELSE Ret(reset_to_header(w, s, hash), FALSE, FALSE, FALSE)

\* a variant that reads the entry and leaves it in the map
remove_get(results, key) == results

\* HashMap::remove on state_parts_apply_results and load_memtrie_results
remove(results, key) == [results EXCEPT ![key] = None]

\* a variant that starts the shard over when applying failed
sync_shards_apply_status_reset(w, s, hash) ==
    IF w.apply_res[s] = None THEN Ret(w, FALSE, FALSE, FALSE)
    ELSE IF w.apply_res[s] = "Err"
    THEN Ret(reset_to_header([w EXCEPT !.apply_res[s] = None], s, hash),
             FALSE, FALSE, FALSE)
    ELSE Ret(SetShard([w EXCEPT !.apply_res[s] = None, !.mem_reqs = @ \cup {s}], s,
                      empty_download("StateApplyFinalizing")),
             FALSE, FALSE, FALSE)

sync_shards_apply_status(w, s, hash) ==
    IF w.apply_res[s] = None THEN Ret(w, FALSE, FALSE, FALSE)
    ELSE LET w1 == [w EXCEPT !.apply_res = remove(@, s)] IN
         IF w.apply_res[s] = "Err" THEN Fail(w1, "Err")
         ELSE IF <<hash, s>> \notin w1.hdrs THEN Fail(w1, "Err")
         ELSE Ret(SetShard([w1 EXCEPT !.mem_reqs = @ \cup {s}], s,
                           empty_download("StateApplyFinalizing")),
                  FALSE, FALSE, FALSE)

\* fin_ok is the outcome of chain.set_state_finalize
\* a variant that takes every finalized shard for done
finalized_status_done(need_to_reshard) == "StateSyncDone"

\* the status a finalized shard gets
finalized_status(need_to_reshard) ==
    IF need_to_reshard THEN "ReshardingScheduling" ELSE "StateSyncDone"

sync_shards_apply_finalizing_status_impl(w, s, hash, need_to_reshard, fin_ok) ==
    IF w.mem_res[s] = None THEN Ret(w, FALSE, FALSE, FALSE)
    ELSE LET w1 == [w EXCEPT !.mem_res = remove(@, s)] IN
         IF w.mem_res[s] = "Err" THEN Fail(w1, "Err")
         ELSE LET w2 == [w1 EXCEPT !.finalized = @ \cup {s}] IN
              IF ~fin_ok THEN Fail(w2, "Err")
              ELSE Ret(SetShard(w2, s, empty_download(finalized_status(need_to_reshard))),
                       FALSE, FALSE, ~need_to_reshard)

sync_shards_apply_finalizing_status(w, s, hash, need_to_reshard, fin_ok) ==
    LET r == sync_shards_apply_finalizing_status_impl(w, s, hash, need_to_reshard, fin_ok)
    IN  IF r.w.err # ""
        THEN Fail(reset_to_header([r.w EXCEPT !.err = ""], s, hash), "Err")
        ELSE r

(***************************************************************************)
(* The request dispatcher.                                                  *)
(***************************************************************************)
\* an external fetch task: part_id = -1 for the header; stored is whether
\* the task has committed its part to DBCol::StateParts
Task(hash, s, part_id) ==
    [sync_hash |-> hash, shard_id |-> s, part_id |-> part_id, stored |-> FALSE]

Spawn(w, t) == [w EXCEPT !.tasks = @ (+) SetToBag({t})]

request_header_from_external_storage(w, s, hash) ==
    LET dl == w.ss[s].downloads[1] IN
    IF ~dl.run_me THEN w
    ELSE Spawn(SetSlot(w, s, 1,
                 [dl EXCEPT !.run_me = FALSE,
                            !.state_requests_count = @ + 1,
                            !.last_target = None]),
               Task(hash, s, -1))

\* a variant that sends the request and leaves the slot armed
request_shard_header_armed(w, s, hash, peer_id) ==
    LET dl == w.ss[s].downloads[1] IN
    IF external THEN request_header_from_external_storage(w, s, hash)
    ELSE IF ~dl.run_me THEN [w EXCEPT !.err = "Fatal"]
    ELSE [SetSlot(w, s, 1,
             [dl EXCEPT !.state_requests_count = @ + 1,
                        !.last_target = peer_id])
           EXCEPT !.sent = Append(@, [kind |-> "StateRequestHeader",
                                      shard_id |-> s, part_id |-> -1,
                                      peer_id |-> peer_id]),
                  !.conts = @ \cup {[shard_id |-> s, slot |-> 1]}]

\* peer_id is the element possible_targets.choose(..) returned
request_shard_header(w, s, hash, peer_id) ==
    LET dl == w.ss[s].downloads[1] IN
    IF external THEN request_header_from_external_storage(w, s, hash)
    ELSE IF ~dl.run_me THEN [w EXCEPT !.err = "Fatal"]
    ELSE [SetSlot(w, s, 1,
             [dl EXCEPT !.run_me = FALSE,
                        !.state_requests_count = @ + 1,
                        !.last_target = peer_id])
           EXCEPT !.sent = Append(@, [kind |-> "StateRequestHeader",
                                      shard_id |-> s, part_id |-> -1,
                                      peer_id |-> peer_id]),
                  !.conts = @ \cup {[shard_id |-> s, slot |-> 1]}]

\* a variant that spawns the fetch without a permit
request_part_from_external_storage_free(w, s, i, hash) ==
    LET dl == w.ss[s].downloads[i] IN
    IF ~dl.run_me THEN w
    ELSE Spawn(SetSlot(w, s, i, [dl EXCEPT !.run_me = FALSE,
                                           !.state_requests_count = @ + 1,
                                           !.last_target = None]),
               Task(hash, s, i - 1))

request_part_from_external_storage(w, s, i, hash) ==
    LET dl == w.ss[s].downloads[i] IN
    IF ~dl.run_me THEN w
    ELSE LET armed == [dl EXCEPT !.state_requests_count = @ + 1,
                                 !.last_target = None]
         IN  IF w.permits > 0
             THEN [Spawn(SetSlot(w, s, i, [armed EXCEPT !.run_me = FALSE]),
                         Task(hash, s, i - 1))
                   EXCEPT !.permits = @ - 1]
             ELSE SetSlot(w, s, i, [armed EXCEPT !.run_me = TRUE])

\* a variant that does not count the attempt
request_part_from_peers_uncounted(w, s, i) ==
    LET dl == w.ss[s].downloads[i] IN
    [SetSlot(w, s, i, [dl EXCEPT !.run_me = FALSE])
      EXCEPT !.sent = Append(@, [kind |-> "StateRequestPart", shard_id |-> s,
                                 part_id |-> i - 1, peer_id |-> None]),
             !.conts = @ \cup {[shard_id |-> s, slot |-> i]}]

request_part_from_peers(w, s, i) ==
    LET dl == w.ss[s].downloads[i] IN
    [SetSlot(w, s, i, [dl EXCEPT !.run_me = FALSE,
                                 !.state_requests_count = @ + 1])
      EXCEPT !.sent = Append(@, [kind |-> "StateRequestPart", shard_id |-> s,
                                 part_id |-> i - 1, peer_id |-> None]),
             !.conts = @ \cup {[shard_id |-> s, slot |-> i]}]

\* a variant that stays with the peers
use_external_never(dl) == FALSE

\* a variant that waits for one more attempt
use_external_strict(dl) == external /\ dl.state_requests_count > PeerAttemptsThreshold

\* the condition that routes a part to external storage
use_external(dl) == external /\ dl.state_requests_count >= PeerAttemptsThreshold

\* a variant that does not look at the semaphore
no_permit_never(w) == FALSE

\* semaphore.available_permits() == 0
no_permit(w) == w.permits = 0

\* a variant that is off by one
below_peer_cap_incl(peer_requests_sent) == peer_requests_sent <= MAX_STATE_PART_REQUEST

\* whether the peer branch may send one more request in this call
below_peer_cap(peer_requests_sent) == peer_requests_sent < MAX_STATE_PART_REQUEST

\* the loop of request_shard_parts over parts_to_fetch, from slot i on
RECURSIVE request_parts_from(_, _, _, _, _)
request_parts_from(w, s, i, hash, peer_requests_sent) ==
    IF i > Len(w.ss[s].downloads) \/ w.err # "" THEN w
    ELSE LET dl == w.ss[s].downloads[i] IN
         IF ~dl.run_me THEN request_parts_from(w, s, i + 1, hash, peer_requests_sent)
         ELSE IF use_external(dl)
         THEN IF no_permit(w)
              THEN request_parts_from(w, s, i + 1, hash, peer_requests_sent)
              ELSE IF <<hash, s>> \notin w.hdrs THEN [w EXCEPT !.err = "Fatal"]
              ELSE request_parts_from(request_part_from_external_storage(w, s, i, hash),
                                      s, i + 1, hash, peer_requests_sent)
         ELSE IF ~below_peer_cap(peer_requests_sent)
              THEN request_parts_from(w, s, i + 1, hash, peer_requests_sent)
              ELSE request_parts_from(request_part_from_peers(w, s, i),
                                      s, i + 1, hash, peer_requests_sent + 1)

request_shard_parts(w, s, hash) == request_parts_from(w, s, 1, hash, 0)

\* a variant that asks for the header whether or not there is a peer
request_shard_any(w, s, hash, peers, pick) ==
    CASE w.ss[s].status = "StateDownloadHeader" -> request_shard_header(w, s, hash, pick)
      [] w.ss[s].status = "StateDownloadParts" -> request_shard_parts(w, s, hash)
      [] OTHER -> w

\* peers is highest_height_peers, pick the peer choose(..) draws from it
request_shard(w, s, hash, peers, pick) ==
    CASE w.ss[s].status = "StateDownloadHeader" ->
            IF ~external /\ peers = <<>> THEN w
            ELSE request_shard_header(w, s, hash, pick)
      [] w.ss[s].status = "StateDownloadParts" -> request_shard_parts(w, s, hash)
      [] OTHER -> w

(***************************************************************************)
(* The driver.                                                              *)
(***************************************************************************)
\* prev_shard_layout != shard_layout for the epochs of sync_hash and its
\* predecessor
shard_layout_differs(hash) == hash = "H3"

\* what run draws from its collaborators in one call: tracking_shards,
\* highest_height_peers, the peer choose(..) returns for each shard, and per
\* shard the outcome of its fallible chain call (set_state_header in the
\* drain, schedule_apply_state_parts, set_state_finalize)
\* run is called with the shards to sync, or with none
TrackingChoices == {<<>>, tracking_shards}
PeerLists == {<<>>, <<"p1">>, <<"p1", "p2">>}
Range(f) == {f[i] : i \in DOMAIN f}

\* a variant that reports the last shard alone
and_done_last(all_done, shard_sync_done) == shard_sync_done

\* all_done &= shard_sync_done
and_done(all_done, shard_sync_done) == all_done /\ shard_sync_done

\* a variant that waits for the resharding
resharding_status_wait(w) == Ret(w, FALSE, FALSE, FALSE)

\* panic!("Resharding V2 scheduling is no longer supported")
resharding_status(w) == Fail(w, "Fatal")

\* the match on the status of shard s in the loop of sync_shards_status
shard_status_step(w, s, hash, o) ==
    LET w0 == IF s \in DOMAIN w.ss THEN w
              ELSE SetShard(w, s, new_download_state_header)
        status == w0.ss[s].status
    IN       CASE status = "StateDownloadHeader" ->
                    sync_shards_download_header_status(w0, s, hash)
               [] status = "StateDownloadParts" ->
                    sync_shards_download_parts_status(w0, s)
               [] status = "StateApplyScheduling" ->
                    sync_shards_apply_scheduling_status(w0, s, hash, o.ok[s])
               [] status = "StateApplyInProgress" ->
                    sync_shards_apply_status(w0, s, hash)
               [] status = "StateApplyFinalizing" ->
                    sync_shards_apply_finalizing_status(
                        w0, s, hash, will_shard_layout_change(hash), o.ok[s])
               [] status \in {"ReshardingScheduling", "ReshardingApplying"} ->
                    resharding_status(w0)
               [] status = "StateSyncDone" -> Ret(w0, FALSE, FALSE, TRUE)

\* a variant that issues no request
shard_step_idle(w, s, hash, o) ==
    LET r == shard_status_step(w, s, hash, o)
    IN  IF r.w.err # "" THEN r.w
        ELSE [r.w EXCEPT !.all_done = and_done(@, r.done)]

\* the body of the loop of sync_shards_status, for shard s
shard_step(w, s, hash, o) ==
    LET r == shard_status_step(w, s, hash, o)
    IN  IF r.w.err # "" THEN r.w
        ELSE LET w1 == [r.w EXCEPT !.all_done = and_done(@, r.done)] IN
             IF r.run THEN request_shard(w1, s, hash, o.peers, o.pick[s]) ELSE w1

\* a variant that goes on to the next shard after a failure
RECURSIVE shards_loop_on(_, _, _, _)
shards_loop_on(w, shards, hash, o) ==
    IF shards = <<>> THEN w
    ELSE shards_loop_on(shard_step(w, Head(shards), hash, o), Tail(shards), hash, o)

RECURSIVE shards_loop(_, _, _, _)
shards_loop(w, shards, hash, o) ==
    IF shards = <<>> \/ w.err # "" THEN w
    ELSE shards_loop(shard_step(w, Head(shards), hash, o), Tail(shards), hash, o)

\* a variant that looks at the layouts after the loop
sync_shards_status_late(w, hash, o) ==
    LET w1 == shards_loop(w, o.tracking, hash, o) IN
    IF shard_layout_differs(hash) THEN [w1 EXCEPT !.err = "Fatal"] ELSE w1

sync_shards_status(w, hash, o) ==
    IF shard_layout_differs(hash) THEN [w EXCEPT !.err = "Fatal"]
    ELSE shards_loop(w, o.tracking, hash, o)

\* StateSync::run; the result is in err and all_done
run(w, hash, o) ==
    IF o.tracking = <<>> THEN w
    ELSE sync_shards_status(process_downloaded_parts(w, hash, o.ok), hash, o)

run_result(w) ==
    IF w.err # "" THEN w.err
    ELSE IF w.all_done THEN "Completed" ELSE "InProgress"

(***************************************************************************)
(* Peer-response intake.                                                    *)
(***************************************************************************)
\* a ShardStateSyncResponse: take_header() is Some iff header, take_part()
\* is Some((part_id, data)) iff part_id >= 0
Responses ==
    {[header |-> h, part_id |-> -1] : h \in BOOLEAN}
        \cup {[header |-> FALSE, part_id |-> p] : p \in 0..2}

\* a variant that lets a response without header pass
on_header_response_lenient(w, s, hash, state_response, ok) ==
    LET dl == w.ss[s].downloads[1] IN
    IF already_done(dl) \/ ~state_response.header THEN w
    ELSE IF ok
    THEN [SetSlot(w, s, 1, [dl EXCEPT !.done = TRUE])
           EXCEPT !.calls = @ + 1, !.hdrs = @ \cup {<<hash, s>>}]
    ELSE [SetSlot(w, s, 1, [dl EXCEPT !.error = TRUE])
           EXCEPT !.calls = @ + 1]

\* the StateDownloadHeader arm; ok is the outcome of chain.set_state_header
on_header_response(w, s, hash, state_response, ok) ==
    LET dl == w.ss[s].downloads[1] IN
    IF already_done(dl) THEN w
    ELSE IF state_response.header
    THEN IF ok
         THEN [SetSlot(w, s, 1, [dl EXCEPT !.done = TRUE])
                EXCEPT !.calls = @ + 1, !.hdrs = @ \cup {<<hash, s>>}]
         ELSE [SetSlot(w, s, 1, [dl EXCEPT !.error = TRUE])
                EXCEPT !.calls = @ + 1]
    ELSE SetSlot(w, s, 1, [dl EXCEPT !.error = TRUE])

\* a variant that takes a part past the end for the last part
clamped_part(part_id, num_parts) ==
    IF part_id >= num_parts THEN num_parts - 1 ELSE part_id

\* if part_id >= num_parts { return }: the part a response addresses, -1
\* when it carries none or one past the end
checked_part(part_id, num_parts) ==
    IF part_id >= num_parts THEN -1 ELSE part_id

\* the StateDownloadParts arm; ok is the outcome of chain.set_state_part
on_part_response(w, s, hash, state_response, ok) ==
    LET d == w.ss[s]
        part_id == checked_part(state_response.part_id, Len(d.downloads))
    IN  IF part_id < 0 THEN w
        ELSE LET dl == d.downloads[part_id + 1] IN
             IF already_done(dl) THEN w
             ELSE IF ok
             THEN [SetSlot(w, s, part_id + 1, [dl EXCEPT !.done = TRUE])
                    EXCEPT !.calls = @ + 1,
                           !.parts = @ \cup {<<hash, s, part_id>>},
                           !.events = @ \cup {<<s, part_id>>}]
             ELSE [SetSlot(w, s, part_id + 1, [dl EXCEPT !.error = TRUE])
                    EXCEPT !.calls = @ + 1]

update_download_on_state_response_message(w, s, hash, state_response, ok) ==
    CASE w.ss[s].status = "StateDownloadHeader" ->
            on_header_response(w, s, hash, state_response, ok)
      [] w.ss[s].status = "StateDownloadParts" ->
            on_part_response(w, s, hash, state_response, ok)
      [] OTHER -> w

(***************************************************************************)
(* StateSync::get_epoch_start_sync_hash.  A block hash is a number, 0 is    *)
(* CryptoHash::default(); headers is the block-header column of the chain   *)
(* store, a function from the stored hashes to [prev_hash, epoch_id], and   *)
(* the hash() of a header is the key it is stored under.                    *)
(***************************************************************************)
DefaultHash == 0
BlockHashes == 1..MaxBlocks
EpochIds == 1..MaxEpochs

\* Result<CryptoHash, near_chain::Error>
Ok(hash) == [ok |-> TRUE, hash |-> hash]
Err == [ok |-> FALSE, hash |-> DefaultHash]

\* a variant that walks on while there are headers
same_epoch_always(epoch_id, header) == TRUE

\* the negation of &epoch_id != header.epoch_id()
same_epoch(epoch_id, header) == epoch_id = header.epoch_id

\* a variant that answers with the block before the epoch
boundary_prev(hash, prev_hash) == prev_hash

\* return Ok(hash) when the header of prev_hash is of another epoch
boundary(hash, prev_hash) == hash

\* the loop, entered with the epoch_id, hash and prev_hash of the header
\* read last
RECURSIVE epoch_start_loop(_, _, _, _)
epoch_start_loop(headers, epoch_id, hash, prev_hash) ==
    IF prev_hash = DefaultHash THEN Ok(hash)
    ELSE IF prev_hash \notin DOMAIN headers THEN Err
    ELSE LET header == headers[prev_hash] IN
         IF ~same_epoch(epoch_id, header) THEN Ok(boundary(hash, prev_hash))
         ELSE epoch_start_loop(headers, header.epoch_id, prev_hash, header.prev_hash)

get_epoch_start_sync_hash(headers, block_hash) ==
    IF block_hash \notin DOMAIN headers THEN Err
    ELSE epoch_start_loop(headers, headers[block_hash].epoch_id, block_hash,
                          headers[block_hash].prev_hash)

(***************************************************************************)
(* The state machine.                                                       *)
(***************************************************************************)
EmptyMap == [x \in {} |-> None]

\* get_epoch_start_sync_hash was not called yet
NoCall == [of |-> DefaultHash, result |-> Err]

\* a chain store that holds the genesis header alone
Genesis == [b \in {1} |-> [prev_hash |-> DefaultHash, epoch_id |-> 1]]

\* StateSync::new and the caller's empty status map
Start ==
    /\ sync_hash = "H1"
    /\ sync_status = EmptyMap
    /\ mpsc = <<>>
    /\ tasks = EmptyBag
    /\ permits = NumPermits
    /\ conts = {}
    /\ state_headers = {}
    /\ state_parts = {}
    /\ apply_results = [s \in Shards |-> None]
    /\ memtrie_results = [s \in Shards |-> None]
    /\ apply_reqs = {}
    /\ memtrie_reqs = {}
    /\ panicked = FALSE
    /\ block_headers = Genesis
    /\ epoch_start = NoCall

\* one shard to sync, with or without external storage
Init ==
    /\ external \in BOOLEAN
    /\ tracking_shards = <<0>>
    /\ Start

\* two shards to sync from peers
InitTwo ==
    /\ external = FALSE
    /\ tracking_shards = <<0, 1>>
    /\ Start

\* one shard of many parts to sync from peers
InitParts ==
    /\ external = FALSE
    /\ tracking_shards = <<2>>
    /\ Start

\* one shard to sync with external storage, the anchor may change
InitEpoch ==
    /\ external = TRUE
    /\ tracking_shards = <<0>>
    /\ Start

Commit(w) ==
    /\ sync_status' = w.ss
    /\ mpsc' = w.q
    /\ tasks' = w.tasks
    /\ permits' = w.permits
    /\ conts' = w.conts
    /\ state_headers' = w.hdrs
    /\ state_parts' = w.parts
    /\ apply_results' = w.apply_res
    /\ memtrie_results' = w.mem_res
    /\ apply_reqs' = w.apply_reqs
    /\ memtrie_reqs' = w.mem_reqs

Alive == ~panicked

WithinBounds(w) ==
    /\ BagCardinality(w.tasks) <= MaxTasks
    /\ \A s \in DOMAIN w.ss : \A i \in Slots(w.ss[s]) :
            w.ss[s].downloads[i].state_requests_count <= MaxRequests

\* the outcomes of the fallible chain call of shard s that the call can see
OkChoices(s) ==
    IF s \in DOMAIN sync_status
       /\ \/ sync_status[s].status = "StateApplyScheduling"
          \/ sync_status[s].status = "StateApplyFinalizing" /\ memtrie_results[s] = "Ok"
          \/ /\ sync_status[s].status = "StateDownloadHeader"
             /\ \E i \in DOMAIN mpsc : mpsc[i].shard_id = s /\ mpsc[i].result = "StateHeader"
    THEN BOOLEAN ELSE {TRUE}

\* the peers choose(..) can return for the header request of shard s
PickChoices(peers, s) ==
    IF ~external /\ peers # <<>>
       /\ (s \notin DOMAIN sync_status \/ sync_status[s].status = "StateDownloadHeader")
    THEN Range(peers) ELSE {None}

\* what a run call can draw in the current state
Oracles ==
    UNION {{[tracking |-> t, peers |-> p, pick |-> k, ok |-> f] :
              t \in TrackingChoices,
              k \in {k \in [Shards -> PeerIds \cup {None}] :
                        \A s \in Shards : k[s] \in PickChoices(p, s)},
              f \in {f \in [Shards -> BOOLEAN] :
                        \A s \in Shards : f[s] \in OkChoices(s)}} :
           p \in PeerLists}

Run ==
    /\ Alive
    /\ UNCHANGED chain_vars
    /\ \E o \in Oracles :
          LET w == run(World, sync_hash, o)
          IN  /\ WithinBounds(w)
              /\ Commit(w)
              /\ panicked' = (run_result(w) = "Fatal")
    /\ UNCHANGED <<external, tracking_shards, sync_hash>>

Response ==
    /\ Alive
    /\ UNCHANGED chain_vars
    /\ \E s \in DOMAIN sync_status, r \in Responses, ok \in BOOLEAN :
          LET w == update_download_on_state_response_message(
                       World, s, sync_hash, r, ok)
          IN  /\ Commit(w)
    /\ UNCHANGED <<external, tracking_shards, sync_hash, panicked>>


\* Clock::now_utc advances by one tick
Tick ==
    /\ Alive
    /\ UNCHANGED chain_vars
    /\ sync_status' =
          [s \in DOMAIN sync_status |->
             [sync_status[s] EXCEPT !.downloads =
                [i \in DOMAIN @ |->
                   [@[i] EXCEPT !.elapsed = IF @ > Timeout THEN @ ELSE @ + 1]]]]
    /\ UNCHANGED <<panicked, external, tracking_shards, sync_hash, mpsc, tasks, permits, conts,
                   state_headers, state_parts, apply_results, memtrie_results,
                   apply_reqs, memtrie_reqs>>

\* a variant that stores the part without validating it
download_and_store_part_unvalidated(got, valid, committed) ==
    IF ~got THEN [result |-> "Err", written |-> FALSE]
    ELSE IF committed THEN [result |-> "StatePart", written |-> TRUE]
    ELSE [result |-> "Err", written |-> FALSE]

\* download_and_store_part_from_external_storage: got is whether get_file
\* returned data, valid what validate_state_part says of the data, committed
\* whether store_update.commit() succeeded; the result it returns and
\* whether the row is in DBCol::StateParts afterwards
download_and_store_part_from_external_storage(got, valid, committed) ==
    IF ~got THEN [result |-> "Err", written |-> FALSE]
    ELSE IF valid
    THEN IF committed THEN [result |-> "StatePart", written |-> TRUE]
         ELSE [result |-> "Err", written |-> FALSE]
    ELSE [result |-> "Err", written |-> FALSE]

\* what a part fetch can come to
FetchOutcomes ==
    {download_and_store_part_from_external_storage(got, valid, committed) :
        got \in BOOLEAN, valid \in BOOLEAN, committed \in BOOLEAN}

ReplaceTask(t, u) == (tasks (-) SetToBag({t})) (+) SetToBag({u})

\* download_and_store_part_from_external_storage got the file, validated
\* it and committed the row
TaskStore ==
    /\ Alive
    /\ UNCHANGED chain_vars
    /\ \E t \in BagToSet(tasks) :
          /\ t.part_id >= 0 /\ ~t.stored
          /\ \E got \in BOOLEAN, valid \in BOOLEAN, committed \in BOOLEAN :
                download_and_store_part_from_external_storage(got, valid, committed).written
          /\ tasks' = ReplaceTask(t, [t EXCEPT !.stored = TRUE])
          /\ state_parts' = IF t.sync_hash = sync_hash
                            THEN state_parts \cup {<<t.sync_hash, t.shard_id, t.part_id>>}
                            ELSE state_parts
    /\ UNCHANGED <<panicked, external, tracking_shards, sync_hash, sync_status, mpsc, permits, conts,
                   state_headers, apply_results, memtrie_results,
                   apply_reqs, memtrie_reqs>>

\* the result a task can send: a part task that stored its part sends
\* StatePart; one that did not failed (get_file, validate_state_part or the
\* commit); a header task parsed the header or failed
TaskResults(t) ==
    IF t.part_id >= 0
    THEN {r.result : r \in {r \in FetchOutcomes : r.written = t.stored}}
    ELSE {"StateHeader", "Err"}

\* the end of a spawned task: state_parts_mpsc_tx.send(..), and for a part
\* drop(permit)
TaskSend ==
    /\ Alive
    /\ UNCHANGED chain_vars
    /\ Len(mpsc) < MaxQueue
    /\ \E t \in BagToSet(tasks) : \E r \in TaskResults(t) :
          /\ mpsc' = Append(mpsc, [sync_hash |-> t.sync_hash, shard_id |-> t.shard_id,
                                   part_id |-> t.part_id, result |-> r])
          /\ permits' = IF t.part_id >= 0 THEN permits + 1 ELSE permits
          /\ tasks' = tasks (-) SetToBag({t})
    /\ UNCHANGED <<panicked, external, tracking_shards, sync_hash, sync_status, conts,
                   state_headers, state_parts, apply_results, memtrie_results,
                   apply_reqs, memtrie_reqs>>

\* a variant that takes no notice of the answer
send_async_then_ignored(ss, c, route_not_found) == ss

\* the closure given to .then(..) of a network send, for the request c of a
\* slot: on RouteNotFound run_me.store(true)
send_async_then(ss, c, route_not_found) ==
    IF route_not_found
    THEN [ss EXCEPT ![c.shard_id].downloads[c.slot].run_me = TRUE]
    ELSE ss

\* the .then(..) continuation of a network send: RouteNotFound stores true
\* into the slot's run_me
Continuation ==
    /\ Alive
    /\ UNCHANGED chain_vars
    /\ \E c \in conts, route_not_found \in BOOLEAN :
          /\ conts' = conts \ {c}
          /\ sync_status' = send_async_then(sync_status, c, route_not_found)
    /\ UNCHANGED <<panicked, external, tracking_shards, sync_hash, mpsc, tasks, permits,
                   state_headers, state_parts, apply_results, memtrie_results,
                   apply_reqs, memtrie_reqs>>

\* StateSync::set_apply_result, called when an ApplyStatePartsRequest was
\* carried out
set_apply_result ==
    /\ Alive
    /\ UNCHANGED chain_vars
    /\ \E s \in apply_reqs, r \in {"Ok", "Err"} :
          /\ apply_results' = [apply_results EXCEPT ![s] = r]
          /\ apply_reqs' = apply_reqs \ {s}
    /\ UNCHANGED <<panicked, external, tracking_shards, sync_hash, sync_status, mpsc, tasks, permits,
                   conts, state_headers, state_parts, memtrie_results, memtrie_reqs>>

\* StateSync::set_load_memtrie_result, called when a LoadMemtrieRequest was
\* carried out
set_load_memtrie_result ==
    /\ Alive
    /\ UNCHANGED chain_vars
    /\ \E s \in memtrie_reqs, r \in {"Ok", "Err"} :
          /\ memtrie_results' = [memtrie_results EXCEPT ![s] = r]
          /\ memtrie_reqs' = memtrie_reqs \ {s}
    /\ UNCHANGED <<panicked, external, tracking_shards, sync_hash, sync_status, mpsc, tasks, permits,
                   conts, state_headers, state_parts, apply_results, apply_reqs>>

\* the caller re-enters state sync with a new anchor and a new status map;
\* the chain store is kept for the rows of the current anchor only, the
\* only rows the core reads
NewSyncHash ==
    /\ Alive
    /\ UNCHANGED chain_vars
    /\ sync_hash = "H1"
    /\ sync_hash' \in {"H2", "H3"}
    /\ sync_status' = EmptyMap
    /\ conts' = {}
    /\ state_headers' = {}
    /\ state_parts' = {}
    /\ UNCHANGED <<panicked, external, tracking_shards, mpsc, tasks, permits, apply_results,
                   memtrie_results, apply_reqs, memtrie_reqs>>

Next ==
    \/ Run
    \/ Response
    \/ Tick
    \/ TaskStore
    \/ TaskSend
    \/ Continuation
    \/ set_apply_result
    \/ set_load_memtrie_result

Spec == Init /\ [][Next]_vars

NextTwo ==
    \/ Run
    \/ Response
    \/ Continuation
    \/ set_apply_result
    \/ set_load_memtrie_result

SpecTwo == InitTwo /\ [][NextTwo]_vars

\* two shards to sync with external storage
InitTwoExternal ==
    /\ external = TRUE
    /\ tracking_shards = <<0, 1>>
    /\ Start

NextTwoExternal ==
    \/ Run
    \/ Tick
    \/ TaskStore
    \/ TaskSend
    \/ set_apply_result
    \/ set_load_memtrie_result

SpecTwoExternal == InitTwoExternal /\ [][NextTwoExternal]_vars

NextParts ==
    \/ Run
    \/ Response
    \/ Tick

SpecParts == InitParts /\ [][NextParts]_vars

NextEpoch ==
    \/ Run
    \/ Tick
    \/ TaskStore
    \/ TaskSend
    \/ set_apply_result
    \/ set_load_memtrie_result
    \/ NewSyncHash

SpecEpoch == InitEpoch /\ [][NextEpoch]_vars

\* state_requests_count counted up to MaxRequests, which is all that
\* state_requests_count >= peer_attempts_threshold reads
Saturated(w) ==
    [w EXCEPT !.ss =
        [s \in DOMAIN @ |->
           [@[s] EXCEPT !.downloads =
              [i \in DOMAIN @ |->
                 [@[i] EXCEPT !.state_requests_count =
                    IF @ > MaxRequests THEN MaxRequests ELSE @]]]]]

\* run, called again and again
RunAgain ==
    /\ Alive
    /\ UNCHANGED chain_vars
    /\ \E o \in Oracles :
          LET w == Saturated(run(World, sync_hash, o))
          IN  /\ BagCardinality(w.tasks) <= MaxTasks
              /\ Commit(w)
              /\ panicked' = (run_result(w) = "Fatal")
    /\ UNCHANGED <<external, tracking_shards, sync_hash>>

\* the end of a spawned task whose GET brought a valid artifact
TaskSendOk ==
    /\ Alive
    /\ UNCHANGED chain_vars
    /\ Len(mpsc) < MaxQueue
    /\ \E t \in BagToSet(tasks) :
          /\ t.part_id >= 0 => t.stored
          /\ mpsc' = Append(mpsc, [sync_hash |-> t.sync_hash, shard_id |-> t.shard_id,
                                   part_id |-> t.part_id,
                                   result |-> IF t.part_id >= 0 THEN "StatePart"
                                              ELSE "StateHeader"])
          /\ permits' = IF t.part_id >= 0 THEN permits + 1 ELSE permits
          /\ tasks' = tasks (-) SetToBag({t})
    /\ UNCHANGED <<panicked, external, tracking_shards, sync_hash, sync_status, conts,
                   state_headers, state_parts, apply_results, memtrie_results,
                   apply_reqs, memtrie_reqs>>

\* one shard to sync with external storage
InitLive ==
    /\ external = TRUE
    /\ tracking_shards = <<0>>
    /\ Start

NextLive ==
    \/ RunAgain
    \/ Response
    \/ Tick
    \/ TaskStore
    \/ TaskSendOk
    \/ set_apply_result
    \/ set_load_memtrie_result

\* a call of run would change the state: what ENABLED <<RunAgain>>_vars says
RunDue ==
    /\ Alive
    /\ \E o \in Oracles :
          LET w == Saturated(run(World, sync_hash, o))
          IN  /\ BagCardinality(w.tasks) <= MaxTasks
              /\ <<w.ss, w.q, w.tasks, w.permits, w.conts, w.hdrs, w.parts,
                   w.apply_res, w.mem_res, w.apply_reqs, w.mem_reqs>>
                 # <<sync_status, mpsc, tasks, permits, conts, state_headers,
                     state_parts, apply_results, memtrie_results, apply_reqs,
                     memtrie_reqs>>

\* run is called repeatedly (weak fairness of RunAgain, with its enabling
\* condition written out), time advances, every external GET completes
SpecLive ==
    /\ InitLive /\ [][NextLive]_vars
    /\ ([]<>~RunDue \/ []<><<RunAgain>>_vars)
    /\ WF_vars(Tick)
    /\ WF_vars(TaskStore) /\ WF_vars(TaskSendOk)

\* the calls of run for the tracked shards in which the chain's own calls
\* (set_state_header, schedule_apply_state_parts, set_state_finalize) succeed
EndCalls ==
    {o \in Oracles : o.tracking = tracking_shards /\ \A s \in Shards : o.ok[s]}

\* those of them that have a peer to ask
PeerCalls == {o \in EndCalls : o.peers # <<>>}

\* run called with one of the oracles os
RunWith(os) ==
    /\ Alive
    /\ UNCHANGED chain_vars
    /\ \E o \in os :
          LET w == Saturated(run(World, sync_hash, o))
          IN  /\ BagCardinality(w.tasks) <= MaxTasks
              /\ Commit(w)
              /\ panicked' = (run_result(w) = "Fatal")
    /\ UNCHANGED <<external, tracking_shards, sync_hash>>

\* such a call would change the state: ENABLED <<RunWith(os)>>_vars
RunDueWith(os) ==
    /\ Alive
    /\ \E o \in os :
          LET w == Saturated(run(World, sync_hash, o))
          IN  /\ BagCardinality(w.tasks) <= MaxTasks
              /\ <<w.ss, w.q, w.tasks, w.permits, w.conts, w.hdrs, w.parts,
                   w.apply_res, w.mem_res, w.apply_reqs, w.mem_reqs>>
                 # <<sync_status, mpsc, tasks, permits, conts, state_headers,
                     state_parts, apply_results, memtrie_results, apply_reqs,
                     memtrie_reqs>>

RunEnd == RunWith(EndCalls)
RunPeers == RunWith(PeerCalls)

\* a request for slot i of shard s has gone to the peers and is not answered
AskedOfPeers(s, i) ==
    /\ i \in Slots(sync_status[s])
    /\ ~sync_status[s].downloads[i].done
    /\ sync_status[s].downloads[i].state_requests_count > 0
    /\ sync_status[s].status = "StateDownloadHeader" => ~external

\* a peer answers a request with the header or the part asked for, which
\* the chain accepts
ResponseValid ==
    /\ Alive
    /\ UNCHANGED chain_vars
    /\ \E s \in DOMAIN sync_status, r \in Responses :
          /\ \/ /\ sync_status[s].status = "StateDownloadHeader"
                /\ r.header
                /\ AskedOfPeers(s, 1)
             \/ /\ sync_status[s].status = "StateDownloadParts"
                /\ r.part_id >= 0
                /\ AskedOfPeers(s, r.part_id + 1)
          /\ Commit(update_download_on_state_response_message(
                        World, s, sync_hash, r, TRUE))
    /\ UNCHANGED <<external, tracking_shards, sync_hash, panicked>>

\* the ApplyStatePartsRequest was carried out with Ok
set_apply_result_ok ==
    /\ Alive
    /\ UNCHANGED chain_vars
    /\ \E s \in apply_reqs :
          /\ apply_results' = [apply_results EXCEPT ![s] = "Ok"]
          /\ apply_reqs' = apply_reqs \ {s}
    /\ UNCHANGED <<panicked, external, tracking_shards, sync_hash, sync_status, mpsc, tasks,
                   permits, conts, state_headers, state_parts, memtrie_results,
                   memtrie_reqs>>

\* the LoadMemtrieRequest was carried out with Ok
set_load_memtrie_result_ok ==
    /\ Alive
    /\ UNCHANGED chain_vars
    /\ \E s \in memtrie_reqs :
          /\ memtrie_results' = [memtrie_results EXCEPT ![s] = "Ok"]
          /\ memtrie_reqs' = memtrie_reqs \ {s}
    /\ UNCHANGED <<panicked, external, tracking_shards, sync_hash, sync_status, mpsc, tasks,
                   permits, conts, state_headers, state_parts, apply_results, apply_reqs>>

\* one shard to sync to the end, with or without external storage
InitEnd ==
    /\ external \in BOOLEAN
    /\ tracking_shards = <<0>>
    /\ Start

NextEnd ==
    \/ RunEnd
    \/ ResponseValid
    \/ Tick
    \/ Continuation
    \/ TaskStore
    \/ TaskSendOk
    \/ set_apply_result_ok
    \/ set_load_memtrie_result_ok

\* run is called repeatedly for a fixed sync_hash, time advances, every
\* request is answered with a valid artifact, the schedulers deliver Ok
SpecEnd ==
    /\ InitEnd /\ [][NextEnd]_vars
    /\ ([]<>~RunDueWith(EndCalls) \/ []<><<RunEnd>>_vars)
    /\ WF_vars(Tick)
    /\ WF_vars(ResponseValid)
    /\ WF_vars(TaskStore) /\ WF_vars(TaskSendOk)
    /\ WF_vars(set_apply_result_ok) /\ WF_vars(set_load_memtrie_result_ok)

\* the block-header columns a chain store can hold: any set of blocks, each
\* after the block it builds on, of the epoch of that block or of a later one
Chains ==
    UNION {{f \in [S -> [prev_hash : 0..(MaxBlocks - 1), epoch_id : EpochIds]] :
              \A b \in S :
                  /\ f[b].prev_hash < b
                  /\ f[b].prev_hash \in S => f[f[b].prev_hash].epoch_id <= f[b].epoch_id} :
           S \in SUBSET BlockHashes}

\* a chain store with headers, no state sync under way
InitChain ==
    /\ external = FALSE
    /\ tracking_shards = <<>>
    /\ sync_hash = "H1"
    /\ sync_status = EmptyMap
    /\ mpsc = <<>>
    /\ tasks = EmptyBag
    /\ permits = NumPermits
    /\ conts = {}
    /\ state_headers = {}
    /\ state_parts = {}
    /\ apply_results = [s \in Shards |-> None]
    /\ memtrie_results = [s \in Shards |-> None]
    /\ apply_reqs = {}
    /\ memtrie_reqs = {}
    /\ panicked = FALSE
    /\ block_headers \in Chains
    /\ epoch_start = NoCall

\* a call of get_epoch_start_sync_hash for a block hash
EpochStart ==
    /\ \E h \in BlockHashes :
          epoch_start' = [of |-> h, result |-> get_epoch_start_sync_hash(block_headers, h)]
    /\ UNCHANGED <<external, tracking_shards, sync_hash, sync_status, mpsc, tasks, permits,
                   conts, state_headers, state_parts, apply_results, memtrie_results,
                   apply_reqs, memtrie_reqs, panicked, block_headers>>

\* the function is applied to its own result
EpochStartAgain ==
    /\ epoch_start.result.ok
    /\ epoch_start' = [of |-> epoch_start.result.hash,
                       result |-> get_epoch_start_sync_hash(block_headers,
                                                            epoch_start.result.hash)]
    /\ UNCHANGED <<external, tracking_shards, sync_hash, sync_status, mpsc, tasks, permits,
                   conts, state_headers, state_parts, apply_results, memtrie_results,
                   apply_reqs, memtrie_reqs, panicked, block_headers>>

NextChain ==
    \/ EpochStart
    \/ EpochStartAgain

SpecChain == InitChain /\ [][NextChain]_vars

(***************************************************************************)
(* Properties.                                                              *)
(***************************************************************************)
\* every run call the current state admits, with what it yields
Calls == {o \in Oracles : o.tracking # <<>>}
After(o) == run(World, sync_hash, o)

StatusOf(ss, s) == IF s \in DOMAIN ss THEN ss[s].status ELSE "Absent"
AllSlots(ss) == {<<s, i>> \in Shards \X (1..ManyParts + 1) :
                    s \in DOMAIN ss /\ i \in Slots(ss[s])}

\* C1: run returns Completed exactly when tracking_shards is empty or every
\* tracked shard is in StateSyncDone at the end of the call, and InProgress
\* in every other call that does not fail.
C1_Completed ==
    \A o \in Oracles :
        LET w == After(o) IN
        w.err = "" =>
            /\ run_result(w) \in {"Completed", "InProgress"}
            /\ run_result(w) = "Completed" <=>
                  \/ o.tracking = <<>>
                  \/ \A s \in Range(o.tracking) : StatusOf(w.ss, s) = "StateSyncDone"

\* a call that returns Completed as it moves the last shard to StateSyncDone,
\* the other one being there already
C1_Witness ==
    \E o \in Calls :
        /\ run_result(After(o)) = "Completed"
        /\ StatusOf(sync_status, 0) = "StateSyncDone"
        /\ StatusOf(sync_status, 1) = "StateApplyFinalizing"


\* C2: after every run call each download slot satisfies: done implies
\* run_me is false and error is false.
C2_DoneQuiet ==
    \A o \in Calls :
        LET w == After(o) IN
        \A x \in AllSlots(w.ss) :
            LET dl == w.ss[x[1]].downloads[x[2]] IN
            dl.done => ~dl.run_me /\ ~dl.error

\* the edges of the status graph a shard may take
Forward ==
    {<<"StateDownloadHeader", "StateDownloadParts">>,
     <<"StateDownloadParts", "StateApplyScheduling">>,
     <<"StateApplyScheduling", "StateApplyInProgress">>,
     <<"StateApplyInProgress", "StateApplyFinalizing">>,
     <<"StateApplyFinalizing", "StateSyncDone">>,
     <<"StateApplyFinalizing", "ReshardingScheduling">>}
Resets ==
    {<<"StateApplyScheduling", "StateDownloadHeader">>,
     <<"StateApplyFinalizing", "StateDownloadHeader">>}

\* C3: every change of a shard's status is a forward step of the status
\* graph or a reset to StateDownloadHeader out of StateApplyScheduling or
\* StateApplyFinalizing; StateSyncDone is never left.
C3_Edges ==
    [][\A s \in DOMAIN sync_status :
          /\ s \in DOMAIN sync_status'
          /\ \/ sync_status'[s].status = sync_status[s].status
             \/ <<sync_status[s].status, sync_status'[s].status>> \in Forward \cup Resets]_vars

\* a shard back in StateDownloadHeader with a fresh slot after its header was
\* persisted: it was reset
C3_Witness ==
    \E s \in DOMAIN sync_status :
        /\ sync_status[s].status = "StateDownloadHeader"
        /\ ~sync_status[s].downloads[1].done
        /\ <<sync_hash, s>> \in state_headers

\* what a completion may change: statuses and slots, the chain store, and
\* the calls and events it causes
Frame(w) == <<w.ss, w.hdrs, w.parts, w.calls, w.events, w.sent, w.tasks>>

\* C4: a drained message whose sync_hash is not the sync_hash of the run
\* call changes no shard status, no slot and no chain-store header.
C4_StaleDropped ==
    \A ok \in [Shards -> BOOLEAN] : \A i \in DOMAIN mpsc :
        LET w0 == drain(World, sync_hash, SubSeq(mpsc, 1, i - 1), ok)
            w1 == process_message(w0, sync_hash, mpsc[i], ok[mpsc[i].shard_id])
        IN  mpsc[i].sync_hash # sync_hash =>
                /\ Frame(w1) = Frame(w0)
                /\ process_downloaded_parts(World, sync_hash, ok).q = <<>>

\* a part completion of the old anchor is pending while the same part is
\* being downloaded for the new anchor
C4_Witness ==
    \E i \in DOMAIN mpsc :
        /\ mpsc[i].sync_hash # sync_hash
        /\ mpsc[i].result = "StatePart"
        /\ StatusOf(sync_status, mpsc[i].shard_id) = "StateDownloadParts"
        /\ ~sync_status[mpsc[i].shard_id].downloads[mpsc[i].part_id + 1].done

\* C5: the number of outstanding external-storage GET tasks, header and
\* part fetches together, is at most the capacity of the semaphore.
C5_TasksWithinPermits == BagCardinality(tasks) <= NumPermits

\* the artifact of slot i of shard s is in the chain store
Persisted(s, i) ==
    IF sync_status[s].status = "StateDownloadHeader"
    THEN <<sync_hash, s>> \in state_headers
    ELSE <<sync_hash, s, i - 1>> \in state_parts

\* C6: whenever a slot is done its artifact is in persistent storage.
C6_DonePersisted ==
    \A x \in AllSlots(sync_status) :
        sync_status[x[1]].downloads[x[2]].done => Persisted(x[1], x[2])


\* the StateRequestPart requests of a call for shard s
PartRequests(w, s) ==
    {i \in DOMAIN w.sent :
        w.sent[i].kind = "StateRequestPart" /\ w.sent[i].shard_id = s}

\* the world of a call with o when it turns to the requests of shard s:
\* after the drain and the match on the status of s
AtDispatch(o, s) ==
    shard_status_step(process_downloaded_parts(World, sync_hash, o.ok),
                      s, sync_hash, o).w

\* C7: one run call sends at most MAX_STATE_PART_REQUEST = 16
\* StateRequestPart requests for a shard; an armed slot it sends no request
\* for keeps run_me true and its state_requests_count.
C7_PeerCap ==
    \A o \in Calls :
        LET w == After(o) IN
        \A s \in Range(o.tracking) :
            /\ Cardinality(PartRequests(w, s)) <= 16
            /\ (w.err = "" /\ w.ss[s].status = "StateDownloadParts") =>
                  \A i \in Slots(w.ss[s]) :
                      LET before == AtDispatch(o, s).ss[s].downloads[i]
                          after == w.ss[s].downloads[i]
                      IN  (before.run_me
                           /\ \A k \in PartRequests(w, s) : w.sent[k].part_id # i - 1)
                          => /\ after.run_me
                             /\ after.state_requests_count = before.state_requests_count

\* a call that sends 16 part requests and leaves a further armed slot
\* unrequested
C7_Witness ==
    \E o \in Calls :
        LET w == After(o) IN
        /\ 2 \in DOMAIN w.ss
        /\ w.ss[2].status = "StateDownloadParts"
        /\ Cardinality(PartRequests(w, 2)) = 16
        /\ \E i \in Slots(w.ss[2]) :
              /\ AtDispatch(o, 2).ss[2].downloads[i].run_me
              /\ \A k \in PartRequests(w, 2) : w.sent[k].part_id # i - 1
              /\ w.ss[2].downloads[i].run_me

\* the shard records as the drain of a call with o leaves them
Drained(o) == process_downloaded_parts(World, sync_hash, o.ok).ss

\* C8: a shard in StateDownloadParts moves to StateApplyScheduling in a run
\* call if and only if every slot of its downloads is done at that tick, and
\* the move clears downloads.
C8_PartsDone ==
    \A o \in Calls :
        LET w == After(o) IN
        \A s \in Range(o.tracking) :
            (w.err = "" /\ StatusOf(sync_status, s) = "StateDownloadParts") =>
                /\ w.ss[s].status \in {"StateDownloadParts", "StateApplyScheduling"}
                /\ w.ss[s].status = "StateApplyScheduling" <=>
                      \A i \in Slots(Drained(o)[s]) : Drained(o)[s].downloads[i].done
                /\ w.ss[s].status = "StateApplyScheduling" => w.ss[s].downloads = <<>>

\* a call whose drain completes the last part and which then moves the shard
C8_Witness ==
    \E o \in Calls : \E s \in Range(o.tracking) :
        /\ StatusOf(sync_status, s) = "StateDownloadParts"
        /\ \E i \in Slots(sync_status[s]) : ~sync_status[s].downloads[i].done
        /\ After(o).ss[s].status = "StateApplyScheduling"

\* C9: the length of a shard's downloads is 1 in StateDownloadHeader, the
\* num_state_parts of the persisted header in StateDownloadParts, and 0 in
\* every other status.
C9_Lengths ==
    \A s \in DOMAIN sync_status :
        CASE sync_status[s].status = "StateDownloadHeader" ->
                Len(sync_status[s].downloads) = 1
          [] sync_status[s].status = "StateDownloadParts" ->
                /\ <<sync_hash, s>> \in state_headers
                /\ Len(sync_status[s].downloads) = NumStateParts(s)
          [] OTHER -> Len(sync_status[s].downloads) = 0

\* a shard that went through the part download and left it
C9_Witness ==
    \E s \in DOMAIN sync_status :
        /\ sync_status[s].status = "StateApplyInProgress"
        /\ sync_status[s].downloads = <<>>
        /\ \A i \in 0..(NumStateParts(s) - 1) : <<sync_hash, s, i>> \in state_parts

\* the completion messages that can be delivered for slot i of shard s
MessagesFor(s, i) ==
    IF sync_status[s].status = "StateDownloadHeader"
    THEN {[sync_hash |-> sync_hash, shard_id |-> s, part_id |-> -1, result |-> r] :
             r \in {"StateHeader", "Err"}}
    ELSE {[sync_hash |-> sync_hash, shard_id |-> s, part_id |-> i - 1, result |-> r] :
             r \in {"StatePart", "Err"}}

\* the peer responses that address slot i of shard s
ResponsesFor(s, i) ==
    IF sync_status[s].status = "StateDownloadHeader"
    THEN Responses
    ELSE {r \in Responses : r.part_id = i - 1}

\* C10: a further completion for a slot that is done, a peer response or an
\* external completion message, Ok or Err, is a no-op: no slot and no
\* status changes, chain.set_state_header / set_state_part is not called
\* and no StatePartReceived is sent.
C10_DuplicateNoOp ==
    \A x \in AllSlots(sync_status) :
        sync_status[x[1]].downloads[x[2]].done =>
            /\ \A m \in MessagesFor(x[1], x[2]), ok \in BOOLEAN :
                  Frame(process_message(World, sync_hash, m, ok)) = Frame(World)
            /\ \A r \in ResponsesFor(x[1], x[2]), ok \in BOOLEAN :
                  Frame(update_download_on_state_response_message(
                            World, x[1], sync_hash, r, ok)) = Frame(World)

\* an external completion is pending for a part slot that a peer response
\* closed
C10_Witness ==
    \E i \in DOMAIN mpsc :
        /\ mpsc[i].sync_hash = sync_hash
        /\ mpsc[i].result = "StatePart"
        /\ StatusOf(sync_status, mpsc[i].shard_id) = "StateDownloadParts"
        /\ sync_status[mpsc[i].shard_id].downloads[mpsc[i].part_id + 1].done

\* the header request of a call for shard s
HeaderRequests(w, s) ==
    {i \in DOMAIN w.sent :
        w.sent[i].kind = "StateRequestHeader" /\ w.sent[i].shard_id = s}

\* C11: without external storage and with a non-empty highest_height_peers,
\* the first run call for a tracked shard creates its entry in
\* StateDownloadHeader with one slot, sends exactly one StateRequestHeader
\* to a peer of highest_height_peers, and leaves the slot with
\* run_me = false, done = false, error = false, state_requests_count = 1
\* and last_target = that peer.
C11_FirstCall ==
    \A o \in Calls : \A s \in Range(o.tracking) :
        (~external /\ o.peers # <<>> /\ s \notin DOMAIN sync_status) =>
            LET w == After(o) IN
            /\ w.err = ""
            /\ s \in DOMAIN w.ss
            /\ w.ss[s].status = "StateDownloadHeader"
            /\ Len(w.ss[s].downloads) = 1
            /\ Cardinality(HeaderRequests(w, s)) = 1
            /\ PartRequests(w, s) = {}
            /\ \A k \in HeaderRequests(w, s) :
                  /\ w.sent[k].peer_id \in Range(o.peers)
                  /\ w.ss[s].downloads[1].last_target = w.sent[k].peer_id
            /\ ~w.ss[s].downloads[1].run_me
            /\ ~w.ss[s].downloads[1].done
            /\ ~w.ss[s].downloads[1].error
            /\ w.ss[s].downloads[1].state_requests_count = 1

\* the first call was made with two peers to choose from and asked the
\* second one for the header of shard 0
C11_Witness ==
    /\ ~external
    /\ 0 \in DOMAIN sync_status
    /\ sync_status[0] =
          [status |-> "StateDownloadHeader",
           downloads |-> <<[run_me |-> FALSE, done |-> FALSE, error |-> FALSE,
                            state_requests_count |-> 1, last_target |-> "p2",
                            elapsed |-> 0]>>]
    /\ [shard_id |-> 0, slot |-> 1] \in conts

\* the slots of shard s other than slot i are the same in w as now
OthersKept(w, s, i) ==
    /\ DOMAIN w.ss = DOMAIN sync_status
    /\ \A x \in AllSlots(sync_status) :
          x # <<s, i>> => w.ss[x[1]].downloads[x[2]] = sync_status[x[1]].downloads[x[2]]

\* C12: update_download_on_state_response_message on a slot that is not
\* done marks it done exactly when the carried header or in-range part is
\* persisted, marks it error when persisting fails or a response in
\* StateDownloadHeader carries no header, sends StatePartReceived exactly on
\* a persisted part, never changes a status, and changes nothing in a
\* status other than StateDownloadHeader and StateDownloadParts.
C12_Intake ==
    \A s \in DOMAIN sync_status : \A r \in Responses : \A ok \in BOOLEAN :
        LET w == update_download_on_state_response_message(World, s, sync_hash, r, ok)
            d == sync_status[s]
        IN  /\ \A x \in DOMAIN sync_status :
                  /\ w.ss[x].status = sync_status[x].status
                  /\ Len(w.ss[x].downloads) = Len(sync_status[x].downloads)
            /\ d.status \notin {"StateDownloadHeader", "StateDownloadParts"} =>
                  Frame(w) = Frame(World)
            /\ (d.status = "StateDownloadHeader" /\ ~d.downloads[1].done) =>
                  /\ w.ss[s].downloads[1].done = (r.header /\ ok)
                  /\ w.ss[s].downloads[1].error =
                        (d.downloads[1].error \/ ~r.header \/ ~ok)
                  /\ w.hdrs = IF r.header /\ ok
                              THEN state_headers \cup {<<sync_hash, s>>}
                              ELSE state_headers
                  /\ w.events = {}
                  /\ OthersKept(w, s, 1)
            /\ (/\ d.status = "StateDownloadParts"
                /\ r.part_id + 1 \in Slots(d)
                /\ ~d.downloads[r.part_id + 1].done) =>
                  LET i == r.part_id + 1 IN
                  /\ w.ss[s].downloads[i].done = ok
                  /\ w.ss[s].downloads[i].error = (d.downloads[i].error \/ ~ok)
                  /\ w.parts = IF ok THEN state_parts \cup {<<sync_hash, s, r.part_id>>}
                               ELSE state_parts
                  /\ w.events = IF ok THEN {<<s, r.part_id>>} ELSE {}
                  /\ OthersKept(w, s, i)

\* a shard waits for its header with an open slot that has no error yet
C12_Witness ==
    \E s \in DOMAIN sync_status :
        /\ sync_status[s].status = "StateDownloadHeader"
        /\ ~sync_status[s].downloads[1].done
        /\ ~sync_status[s].downloads[1].error
        /\ sync_status[s].downloads[1].state_requests_count = 1

\* C13: a peer response in StateDownloadParts whose part_id is at least the
\* number of slots is discarded: no slot changes, chain.set_state_part is
\* not called and no StatePartReceived is sent.
C13_OutOfRange ==
    \A s \in DOMAIN sync_status : \A r \in Responses : \A ok \in BOOLEAN :
        (/\ sync_status[s].status = "StateDownloadParts"
         /\ r.part_id >= Len(sync_status[s].downloads)) =>
            Frame(update_download_on_state_response_message(
                      World, s, sync_hash, r, ok)) = Frame(World)

\* a shard whose last slot is open while a response can name the part past
\* it
C13_Witness ==
    \E s \in DOMAIN sync_status : \E r \in Responses :
        /\ sync_status[s].status = "StateDownloadParts"
        /\ r.part_id = Len(sync_status[s].downloads)
        /\ ~sync_status[s].downloads[Len(sync_status[s].downloads)].done

\* C14: a shard in StateDownloadHeader moves to StateDownloadParts in a run
\* call if and only if its header slot is done at that tick; its record is
\* then replaced by one of num_state_parts fresh slots (run_me = true,
\* done = false, error = false, state_requests_count = 0).
C14_HeaderDone ==
    \A o \in Calls : \A s \in Range(o.tracking) :
        LET w == After(o) IN
        (w.err = "" /\ StatusOf(sync_status, s) = "StateDownloadHeader") =>
            /\ w.ss[s].status \in {"StateDownloadHeader", "StateDownloadParts"}
            /\ w.ss[s].status = "StateDownloadParts" <=> Drained(o)[s].downloads[1].done
            /\ w.ss[s].status = "StateDownloadParts" =>
                  LET d == AtDispatch(o, s).ss[s] IN
                  /\ d.status = "StateDownloadParts"
                  /\ Len(d.downloads) = NumStateParts(s)
                  /\ Len(w.ss[s].downloads) = NumStateParts(s)
                  /\ \A i \in Slots(d) :
                        /\ d.downloads[i].run_me
                        /\ ~d.downloads[i].done
                        /\ ~d.downloads[i].error
                        /\ d.downloads[i].state_requests_count = 0
                        /\ d.downloads[i].last_target = None

\* a call whose drain stores the header an external fetch brought and which
\* then moves the shard
C14_Witness ==
    \E o \in Calls : \E s \in Range(o.tracking) :
        /\ StatusOf(sync_status, s) = "StateDownloadHeader"
        /\ ~sync_status[s].downloads[1].done
        /\ After(o).err = ""
        /\ After(o).ss[s].status = "StateDownloadParts"

\* the call with o spawns an external fetch for slot i of shard s
Spawned(o, s, i) ==
    CopiesIn(Task(sync_hash, s, i - 1), After(o).tasks)
        > CopiesIn(Task(sync_hash, s, i - 1), tasks)

\* the call with o sends a peer request for slot i of shard s
Asked(o, s, i) ==
    \E k \in PartRequests(After(o), s) : After(o).sent[k].part_id = i - 1

\* the slots of shard s that are armed when the call with o turns to its
\* part requests, which it does when run_shard_state_download is set
Armed(o, s) ==
    IF /\ After(o).err = ""
       /\ shard_status_step(process_downloaded_parts(World, sync_hash, o.ok),
                            s, sync_hash, o).run
       /\ AtDispatch(o, s).ss[s].status = "StateDownloadParts"
    THEN {i \in Slots(AtDispatch(o, s).ss[s]) : AtDispatch(o, s).ss[s].downloads[i].run_me}
    ELSE {}

\* C15: an armed part slot is routed to external storage if and only if
\* external storage is configured and its state_requests_count is at least
\* the threshold; otherwise it is routed to peers.  A slot below the
\* threshold is never fetched from external storage, and an external request
\* sets last_target = None.
C15_Routing ==
    \A o \in Calls : \A s \in Range(o.tracking) : \A i \in Armed(o, s) :
        LET before == AtDispatch(o, s).ss[s].downloads[i]
            after == After(o).ss[s].downloads[i]
            due == external /\ before.state_requests_count >= PeerAttemptsThreshold
        IN  /\ Spawned(o, s, i) => due /\ after.last_target = None
            /\ Asked(o, s, i) => ~due
            /\ due => ~Asked(o, s, i)
            /\ ~due => ~Spawned(o, s, i)
            /\ (~due /\ Cardinality(Armed(o, s)) <= MAX_STATE_PART_REQUEST) =>
                  Asked(o, s, i)
            /\ (due /\ permits > 0 /\ \A j \in Armed(o, s) : j >= i) => Spawned(o, s, i)

\* a call that fetches from external storage a part it asked a peer for
\* before, from a slot that still names no target
C15_Witness ==
    \E o \in Calls : \E s \in Range(o.tracking) : \E i \in Armed(o, s) :
        /\ Spawned(o, s, i)
        /\ AtDispatch(o, s).ss[s].downloads[i].state_requests_count = PeerAttemptsThreshold

\* the permits left when the call with o comes to slot i of shard s
PermitsAt(o, s, i) ==
    permits - Cardinality({j \in Armed(o, s) : j < i /\ Spawned(o, s, j)})

\* C16: with zero permits available, a part slot due for external storage is
\* skipped: no task is spawned, run_me stays true, state_requests_count and
\* last_target are unchanged, and the next tick examines the slot again.
C16_NoPermit ==
    \A o \in Calls : \A s \in Range(o.tracking) : \A i \in Armed(o, s) :
        LET before == AtDispatch(o, s).ss[s].downloads[i]
            after == After(o).ss[s].downloads[i]
        IN  (/\ external
             /\ before.state_requests_count >= PeerAttemptsThreshold
             /\ PermitsAt(o, s, i) = 0) =>
                /\ ~Spawned(o, s, i)
                /\ ~Asked(o, s, i)
                /\ after = before
                /\ after.run_me
                /\ ~after.done => sync_shards_download_parts_status(After(o), s).run

\* a call in which the only permit goes to the first due slot and the
\* second due slot is skipped
C16_Witness ==
    \E o \in Calls : \E s \in Range(o.tracking) : \E i, j \in Armed(o, s) :
        /\ external /\ permits > 0
        /\ j < i
        /\ Spawned(o, s, j)
        /\ AtDispatch(o, s).ss[s].downloads[i].state_requests_count >= PeerAttemptsThreshold
        /\ PermitsAt(o, s, i) = 0
        /\ ~AtDispatch(o, s).ss[s].downloads[i].done

\* the call with o fails shard s in StateApplyScheduling or in
\* StateApplyFinalizing
FailsApply(o, s) ==
    /\ <<sync_hash, s>> \in state_headers
    /\ \/ StatusOf(sync_status, s) = "StateApplyScheduling" /\ ~o.ok[s]
       \/ /\ StatusOf(sync_status, s) = "StateApplyFinalizing"
          /\ \/ memtrie_results[s] = "Err"
             \/ memtrie_results[s] = "Ok" /\ ~o.ok[s]

\* C17: a failure in StateApplyScheduling or StateApplyFinalizing resets the
\* shard to StateDownloadHeader with one fresh slot, calls
\* clear_downloaded_parts for the shard and increments
\* STATE_SYNC_DISCARD_PARTS of the shard by exactly one.
C17_Reset ==
    \A o \in Calls : \A s \in Range(o.tracking) :
        FailsApply(o, s) =>
            LET w == After(o) IN
            /\ w.ss[s] = new_download_state_header
            /\ s \in w.cleared
            /\ \A i \in 0..(NumStateParts(s) - 1) : <<sync_hash, s, i>> \notin w.parts
            /\ Cardinality({k \in DOMAIN w.discard : w.discard[k] = s}) = 1
            /\ StatusOf(sync_status, s) = "StateApplyFinalizing" => w.err = "Err"
            /\ StatusOf(sync_status, s) = "StateApplyScheduling" => w.err = ""

\* a call that fails the finalizing of a shard whose parts are in the store
C17_Witness ==
    \E o \in Calls : \E s \in Range(o.tracking) :
        /\ FailsApply(o, s)
        /\ StatusOf(sync_status, s) = "StateApplyFinalizing"
        /\ \E i \in 0..(NumStateParts(s) - 1) : <<sync_hash, s, i>> \in state_parts

\* C18 as stated: run checks the layouts before it drains: when they differ
\* and tracking_shards is not empty the call is fatal, takes no message
\* from the MPSC, creates or changes no shard record and issues no request.
C18_CheckedFirst ==
    \A o \in Calls :
        shard_layout_differs(sync_hash) =>
            /\ After(o).err = "Fatal"
            /\ After(o).q = mpsc
            /\ Frame(After(o)) = Frame(World)

\* C18, amended: run drains the MPSC and then checks the layouts, before it
\* advances any shard: when they differ and tracking_shards is not empty
\* the call is fatal, has applied no completion message (what it drained
\* it discarded), created or changed no shard record, called no chain
\* setter and issued no request.
C18_NoEffect ==
    \A o \in Calls :
        shard_layout_differs(sync_hash) =>
            /\ After(o).err = "Fatal"
            /\ run_result(After(o)) = "Fatal"
            /\ After(o).q = <<>>
            /\ After(o).stale = Len(mpsc)
            /\ Frame(After(o)) = Frame(World)
            /\ After(o).conts = conts
            /\ After(o).permits = permits

\* a call on an anchor whose layouts differ, with a completion of the
\* earlier anchor pending
C18_Witness ==
    \E o \in Calls :
        /\ ~panicked
        /\ shard_layout_differs(sync_hash)
        /\ mpsc # <<>>
        /\ After(o).err = "Fatal"

\* the part_id the requests for slot i of shard s carry
PartOf(s, i) == IF sync_status[s].status = "StateDownloadHeader" THEN -1 ELSE i - 1

\* the requests dispatched for slot i of shard s that are still under way:
\* external fetches that have not posted their completion, and a peer
\* request whose send has not resolved
InFlight(s, i) ==
    LET fetches == {t \in BagToSet(tasks) :
                       /\ t.sync_hash = sync_hash
                       /\ t.shard_id = s
                       /\ t.part_id = PartOf(s, i)}
        count[T \in SUBSET fetches] ==
            IF T = {} THEN 0
            ELSE LET t == CHOOSE t \in T : TRUE
                 IN  CopiesIn(t, tasks) + count[T \ {t}]
    IN  count[fetches]
          + (IF [shard_id |-> s, slot |-> i] \in conts THEN 1 ELSE 0)

\* C19: at any time each download slot has at most one in-flight request,
\* also when slots are re-armed by timeout.
C19_OneInFlight ==
    \A x \in AllSlots(sync_status) : InFlight(x[1], x[2]) <= 1

\* C20: with external storage configured, run called repeatedly, time
\* advancing and every external GET completing with a valid artifact, every
\* part slot eventually becomes done and the shard leaves
\* StateDownloadParts, whether or not a peer ever delivers a part.
C20_Progress ==
    (StatusOf(sync_status, 0) = "StateDownloadParts")
        ~> (StatusOf(sync_status, 0) = "StateApplyScheduling")

\* both parts of the shard were fetched from external storage and the shard
\* has left StateDownloadParts
C20_Witness ==
    /\ StatusOf(sync_status, 0) = "StateApplyScheduling"
    /\ \A i \in 0..(NumStateParts(0) - 1) : <<sync_hash, 0, i>> \in state_parts
    /\ permits = NumPermits

\* the epoch start of block h in the chain store, as a call returns it
EpochStartOf(h) == get_epoch_start_sync_hash(block_headers, h)

\* C21: get_epoch_start_sync_hash is idempotent: for every block hash h for
\* which it returns a hash, applied to that hash it returns the same hash.
C21_Idempotent ==
    /\ \A h \in BlockHashes :
          EpochStartOf(h).ok => EpochStartOf(EpochStartOf(h).hash) = EpochStartOf(h)
    /\ (epoch_start.result.ok /\ epoch_start.of \in BlockHashes) =>
          EpochStartOf(epoch_start.result.hash) = epoch_start.result

\* the function was applied to the first block of an epoch that is not the
\* first epoch, the epoch start of a later block
C21_Witness ==
    /\ epoch_start.result.ok
    /\ epoch_start.of = epoch_start.result.hash
    /\ block_headers[epoch_start.of].prev_hash # DefaultHash
    /\ \E h \in BlockHashes :
          h # epoch_start.of /\ EpochStartOf(h) = epoch_start.result

\* P is the set of blocks from h back to r along prev_hash, all stored
IsPath(P, h, r) ==
    /\ P \subseteq DOMAIN block_headers
    /\ h \in P /\ r \in P
    /\ \A b \in P : b <= h /\ r <= b
    /\ \A b \in P \ {r} : block_headers[b].prev_hash \in P
    /\ \A b \in P \ {h} : \E c \in P : block_headers[c].prev_hash = b

\* the blocks from h back to r are stored and of the epoch of h
SameEpochBack(h, r) ==
    \E P \in SUBSET BlockHashes :
        /\ IsPath(P, h, r)
        /\ \A b \in P : block_headers[b].epoch_id = block_headers[h].epoch_id

\* C22: get_epoch_start_sync_hash(h) returns the earliest ancestor r of h, h
\* included, such that every block from r to h is of the epoch of h: the
\* predecessor of r is absent (prev_hash is the default hash) or of another
\* epoch; a missing header on the walk yields an error.
C22_EpochStart ==
    \A h \in BlockHashes :
        LET res == EpochStartOf(h) IN
        /\ res.ok =>
              LET r == res.hash
                  prev == block_headers[r].prev_hash
              IN  /\ SameEpochBack(h, r)
                  /\ \/ prev = DefaultHash
                     \/ /\ prev \in DOMAIN block_headers
                        /\ block_headers[prev].epoch_id # block_headers[h].epoch_id
        /\ ~res.ok <=>
              \/ h \notin DOMAIN block_headers
              \/ \E r \in BlockHashes :
                    /\ SameEpochBack(h, r)
                    /\ block_headers[r].prev_hash # DefaultHash
                    /\ block_headers[r].prev_hash \notin DOMAIN block_headers

\* a call for a block two blocks into the second epoch returned the first
\* block of that epoch
C22_Witness ==
    /\ epoch_start.result.ok
    /\ epoch_start.of \in DOMAIN block_headers
    /\ LET r == epoch_start.result.hash
           h == epoch_start.of
       IN  /\ block_headers[h].prev_hash # r
           /\ h # r
           /\ block_headers[r].prev_hash \in DOMAIN block_headers
           /\ block_headers[block_headers[r].prev_hash].epoch_id # block_headers[h].epoch_id

\* C23: a run call that finds a shard in StateApplyInProgress with an
\* apply_result that is an error resets the shard to StateDownloadHeader and
\* clears its persisted parts: the shard does not stay in
\* StateApplyInProgress.
C23_ApplyErrorResets ==
    \A o \in Calls : \A s \in Range(o.tracking) :
        (/\ StatusOf(Drained(o), s) = "StateApplyInProgress"
         /\ apply_results[s] = "Err") =>
            /\ StatusOf(After(o).ss, s) = "StateDownloadHeader"
            /\ s \in After(o).cleared

\* C24: a shard leaves StateApplyInProgress only in a run call that finds an
\* apply_result for it, and StateApplyFinalizing only in a run call that
\* finds a memtrie_result for it; without the result the call leaves the
\* shard record unchanged.  With an Ok apply_result the next status is
\* StateApplyFinalizing; with an Ok memtrie_result set_state_finalize is
\* called and the next status is StateSyncDone when no reshard is needed and
\* ReshardingScheduling otherwise.
C24_Results ==
    \A o \in Calls : \A s \in Range(o.tracking) :
        LET w == After(o) IN
        /\ StatusOf(sync_status, s) = "StateApplyInProgress" =>
              /\ apply_results[s] = None => w.ss[s] = sync_status[s]
              /\ w.ss[s].status # "StateApplyInProgress" => apply_results[s] # None
              /\ (apply_results[s] = "Ok" /\ w.err = "") =>
                    w.ss[s].status = "StateApplyFinalizing"
        /\ StatusOf(sync_status, s) = "StateApplyFinalizing" =>
              /\ memtrie_results[s] = None =>
                    w.ss[s] = sync_status[s] /\ s \notin w.finalized
              /\ w.ss[s].status # "StateApplyFinalizing" => memtrie_results[s] # None
              /\ memtrie_results[s] = "Ok" =>
                    /\ s \in w.finalized
                    /\ w.err = "" =>
                          w.ss[s].status =
                              IF will_shard_layout_change(sync_hash)
                              THEN "ReshardingScheduling" ELSE "StateSyncDone"

\* the next epoch reshards and the shard was finalized
C24_Witness ==
    /\ will_shard_layout_change(sync_hash)
    /\ StatusOf(sync_status, 0) = "ReshardingScheduling"

\* C25: a run call that finds a tracked shard in ReshardingScheduling or
\* ReshardingApplying signals a fatal condition; so when the next epoch
\* reshards, the call that finalizes a shard returns InProgress, the call
\* after it is fatal, and no call for that shard returns Completed.
C25_ReshardingFatal ==
    \A o \in Calls : \A s \in Range(o.tracking) :
        LET w == After(o) IN
        /\ StatusOf(sync_status, s) \in {"ReshardingScheduling", "ReshardingApplying"} =>
              run_result(w) = "Fatal"
        /\ will_shard_layout_change(sync_hash) =>
              /\ run_result(w) # "Completed"
              /\ (/\ StatusOf(sync_status, s) = "StateApplyFinalizing"
                  /\ s \in w.finalized /\ w.err = "") =>
                    /\ run_result(w) = "InProgress"
                    /\ w.ss[s].status = "ReshardingScheduling"

\* the call after the one that finalized the shard has ended the process
C25_Witness ==
    /\ will_shard_layout_change(sync_hash)
    /\ StatusOf(sync_status, 0) = "ReshardingScheduling"
    /\ panicked

\* C26: an apply_result or memtrie_result entry is removed from its map in
\* the run call that reads it, be it Ok or Err, so no result is processed in
\* two ticks; and a shard that was reset to StateDownloadHeader finds no
\* result of the failed attempt on its retry: a result or an unanswered
\* request exists only for a shard in the status that waits for it.
C26_Consumed ==
    /\ \A o \in Calls : \A s \in Range(o.tracking) :
          LET w == After(o) IN
          /\ StatusOf(sync_status, s) = "StateApplyInProgress" => w.apply_res[s] = None
          /\ StatusOf(sync_status, s) = "StateApplyFinalizing" => w.mem_res[s] = None
    /\ \A s \in Shards :
          /\ (apply_results[s] # None \/ s \in apply_reqs) =>
                StatusOf(sync_status, s) = "StateApplyInProgress"
          /\ (memtrie_results[s] # None \/ s \in memtrie_reqs) =>
                StatusOf(sync_status, s) = "StateApplyFinalizing"
          /\ ~(apply_results[s] # None /\ s \in apply_reqs)
          /\ ~(memtrie_results[s] # None /\ s \in memtrie_reqs)

\* a call reads a failed memtrie result, resets the shard and leaves no
\* result behind
C26_Witness ==
    \E o \in Calls :
        /\ memtrie_results[0] = "Err"
        /\ StatusOf(After(o).ss, 0) = "StateDownloadHeader"
        /\ After(o).mem_res[0] = None

\* what the match on the status of shard s returns in a call with o: the
\* world and the flags download_timeout and run_shard_state_download
StatusPass(o, s) ==
    shard_status_step(process_downloaded_parts(World, sync_hash, o.ok), s, sync_hash, o)

\* a slot as the status pass leaves it when it re-arms it
Rearmed(dl) == [dl EXCEPT !.run_me = TRUE, !.error = FALSE, !.elapsed = 0]

\* C27: in StateDownloadHeader a run call re-arms the header slot that is
\* not done (run_me = true, error = false, prev_update_time = now) if and
\* only if now - prev_update_time > tau or error is set, and reports the
\* slot's run_me as the dispatch request; a slot that is neither timed out
\* nor in error nor armed causes no request in that call.
C27_HeaderRetry ==
    \A o \in Calls : \A s \in Range(o.tracking) :
        (/\ StatusOf(Drained(o), s) = "StateDownloadHeader"
         /\ ~Drained(o)[s].downloads[1].done) =>
            LET dl == Drained(o)[s].downloads[1]
                r == StatusPass(o, s)
                after == r.w.ss[s].downloads[1]
                due == dl.elapsed > Timeout \/ dl.error
            IN  /\ r.w.ss[s].status = "StateDownloadHeader"
                /\ after = IF due THEN Rearmed(dl) ELSE dl
                /\ r.run = after.run_me
                /\ r.timeout = (dl.elapsed > Timeout)
                /\ (~due /\ ~dl.run_me) =>
                      /\ After(o).ss[s] = Drained(o)[s]
                      /\ After(o).sent = <<>>
                      /\ After(o).tasks = tasks

\* a header slot in error before its timeout, for which a call sends a new
\* request
C27_Witness ==
    /\ StatusOf(sync_status, 0) = "StateDownloadHeader"
    /\ sync_status[0].downloads[1].error
    /\ ~sync_status[0].downloads[1].run_me
    /\ sync_status[0].downloads[1].elapsed <= Timeout
    /\ \E o \in Calls :
          /\ After(o).err = ""
          /\ After(o).ss[0].status = "StateDownloadHeader"
          /\ After(o).ss[0].downloads[1].state_requests_count
                > sync_status[0].downloads[1].state_requests_count

\* C28: in StateDownloadParts every slot that is not done and whose age
\* exceeds tau or whose error flag is set is re-armed in that run call
\* (run_me = true, error = false, prev_update_time = now); so a slot whose
\* peer response failed to persist is requested again at the next call,
\* before its timeout.
C28_PartRetry ==
    \A o \in Calls : \A s \in Range(o.tracking) :
        StatusOf(Drained(o), s) = "StateDownloadParts" =>
            \A i \in Slots(Drained(o)[s]) :
                LET dl == Drained(o)[s].downloads[i] IN
                (~dl.done /\ (dl.elapsed > Timeout \/ dl.error)) =>
                    StatusPass(o, s).w.ss[s].downloads[i] = Rearmed(dl)

\* the last request for part slot i of shard s went to external storage and
\* its fetch has ended without the part: no task is left, no StatePart
\* completion is pending, and the slot is neither done nor armed nor timed out
FailedFetch(s, i) ==
    /\ external
    /\ StatusOf(sync_status, s) = "StateDownloadParts"
    /\ i \in Slots(sync_status[s])
    /\ LET dl == sync_status[s].downloads[i] IN
          /\ ~dl.done /\ ~dl.run_me
          /\ dl.elapsed <= Timeout
          /\ dl.last_target = None
          /\ dl.state_requests_count > PeerAttemptsThreshold
    /\ \A t \in BagToSet(tasks) :
          ~(t.sync_hash = sync_hash /\ t.shard_id = s /\ t.part_id = i - 1)
    /\ \A k \in DOMAIN mpsc :
          (mpsc[k].sync_hash = sync_hash /\ mpsc[k].shard_id = s
           /\ mpsc[k].part_id = i - 1) => mpsc[k].result = "Err"

\* C29: a failed external-storage fetch is not retried at once: after an
\* external completion with an Err result for a part slot, the slot's run_me
\* stays false and no request is issued for it until now - prev_update_time
\* exceeds tau.
C29_FailedFetchWaits ==
    [][\A s \in Shards : \A i \in 1..NumStateParts(s) :
          (FailedFetch(s, i) /\ StatusOf(sync_status', s) = "StateDownloadParts") =>
              /\ ~sync_status'[s].downloads[i].run_me
              /\ sync_status'[s].downloads[i].state_requests_count
                    = sync_status[s].downloads[i].state_requests_count]_vars

\* the state in which the network has answered the request c with
\* RouteNotFound
Answered(c) ==
    [World EXCEPT !.ss = send_async_then(sync_status, c, TRUE), !.conts = conts \ {c}]

\* the armed slots ahead of slot i of shard s that take a permit before it
\* in the call with o made in the world w0
Ahead(w0, o, s, i) ==
    LET d == shard_status_step(process_downloaded_parts(w0, sync_hash, o.ok),
                               s, sync_hash, o).w.ss[s]
    IN  {j \in 1..(i - 1) : d.downloads[j].run_me /\ use_external(d.downloads[j])}

\* C30: when the network answers a peer header or part request with
\* RouteNotFound the slot's run_me is set to true, and the next run call
\* then sends a new request for that slot though its timeout has not
\* passed; any other answer leaves run_me as it is.
C30_RouteNotFound ==
    \A c \in conts :
        LET s == c.shard_id
            i == c.slot
            dl == sync_status[s].downloads[i]
        IN  /\ send_async_then(sync_status, c, FALSE) = sync_status
            /\ send_async_then(sync_status, c, TRUE)
                  = [sync_status EXCEPT ![s].downloads[i].run_me = TRUE]
            /\ \A o \in Calls :
                  LET w == run(Answered(c), sync_hash, o)
                      d == process_downloaded_parts(Answered(c), sync_hash, o.ok).ss[s]
                      can == IF d.status = "StateDownloadHeader"
                             THEN external \/ o.peers # <<>>
                             ELSE use_external(dl) =>
                                    permits > Cardinality(Ahead(Answered(c), o, s, i))
                  IN  (/\ s \in Range(o.tracking)
                       /\ w.err = ""
                       /\ ~d.downloads[i].done /\ ~dl.error /\ dl.elapsed <= Timeout
                       /\ can) =>
                          /\ w.ss[s].status = sync_status[s].status
                          /\ w.ss[s].downloads[i].state_requests_count
                                = dl.state_requests_count + 1
                          /\ ~w.ss[s].downloads[i].run_me

\* a part slot asked for once from the peers that is armed again before its
\* timeout: the network answered RouteNotFound
C30_Witness ==
    /\ ~external
    /\ StatusOf(sync_status, 0) = "StateDownloadParts"
    /\ sync_status[0].downloads[1].run_me
    /\ ~sync_status[0].downloads[1].done
    /\ sync_status[0].downloads[1].state_requests_count = 1
    /\ sync_status[0].downloads[1].elapsed <= Timeout
    /\ [shard_id |-> 0, slot |-> 1] \notin conts

\* the number of requests the call with o dispatches for slot i of shard s,
\* whose record is d when the call turns to the requests of s: the fetch
\* tasks it spawns and the requests it sends to peers
Dispatches(o, s, i, d) ==
    LET part_id == IF d.status = "StateDownloadHeader" THEN -1 ELSE i - 1
        t == Task(sync_hash, s, part_id)
    IN  (CopiesIn(t, After(o).tasks) - CopiesIn(t, tasks))
          + Cardinality({k \in DOMAIN After(o).sent :
                            /\ After(o).sent[k].shard_id = s
                            /\ After(o).sent[k].part_id = part_id})

\* the state_requests_count of the slots of shard s, by slot
Counts(ss, s) == [i \in Slots(ss[s]) |-> ss[s].downloads[i].state_requests_count]

\* C31: state_requests_count is the number of requests dispatched for the
\* slot since it was created: a new slot has count 0, each dispatch, to a
\* peer or to external storage, clears run_me and adds exactly one, a call
\* that skips the slot leaves it unchanged, and nothing else changes the
\* count.
C31_Counted ==
    /\ new_download_status.state_requests_count = 0
    /\ \A o \in Calls : \A s \in Range(o.tracking) :
          LET d == AtDispatch(o, s).ss[s]
              w == After(o)
          IN  /\ s \in DOMAIN sync_status =>
                    (StatusOf(Drained(o), s) = sync_status[s].status
                     /\ Counts(Drained(o), s) = Counts(sync_status, s))
              /\ (w.err = "" /\ d.status \in {"StateDownloadHeader", "StateDownloadParts"}) =>
                    \A i \in Slots(d) :
                        LET n == Dispatches(o, s, i, d) IN
                        /\ n \in {0, 1}
                        /\ w.ss[s].downloads[i].state_requests_count
                              = d.downloads[i].state_requests_count + n
                        /\ n = 1 => d.downloads[i].run_me /\ ~w.ss[s].downloads[i].run_me
                        /\ n = 0 => w.ss[s].downloads[i] = d.downloads[i]
              /\ (w.err = "" /\ s \in DOMAIN sync_status
                  /\ d.status = sync_status[s].status /\ Slots(d) = Slots(sync_status[s])) =>
                    \A i \in Slots(d) :
                        d.downloads[i].state_requests_count
                            = sync_status[s].downloads[i].state_requests_count
    /\ \A s \in DOMAIN sync_status :
          /\ \A r \in Responses, ok \in BOOLEAN :
                Counts(update_download_on_state_response_message(
                           World, s, sync_hash, r, ok).ss, s) = Counts(sync_status, s)
          /\ \A c \in conts, route_not_found \in BOOLEAN :
                Counts(send_async_then(sync_status, c, route_not_found), s)
                    = Counts(sync_status, s)

\* a part slot asked for from the peers once and from external storage
\* once, beside a slot a call left armed
C31_Witness ==
    /\ external
    /\ StatusOf(sync_status, 0) = "StateDownloadParts"
    /\ sync_status[0].downloads[1].state_requests_count = 2
    /\ ~sync_status[0].downloads[1].run_me
    /\ sync_status[0].downloads[2].run_me
    /\ sync_status[0].downloads[2].state_requests_count = 1

\* C32: with external storage configured the header is always fetched from
\* external storage (last_target = None) and no StateRequestHeader is sent
\* to a peer, whatever highest_height_peers holds; without it the request
\* goes to a member of highest_height_peers, and when that list is empty
\* nothing is dispatched in that call and the slot keeps run_me = true and
\* its state_requests_count.
C32_HeaderRouting ==
    \A o \in Calls : \A s \in Range(o.tracking) :
        LET w == After(o)
            d == AtDispatch(o, s).ss[s]
            t == Task(sync_hash, s, -1)
            spawned == CopiesIn(t, w.tasks) - CopiesIn(t, tasks)
        IN  /\ external => HeaderRequests(w, s) = {}
            /\ (w.err = "" /\ d.status = "StateDownloadHeader" /\ StatusPass(o, s).run) =>
                  LET before == d.downloads[1]
                      after == w.ss[s].downloads[1]
                  IN  /\ external =>
                            /\ spawned = 1
                            /\ after.last_target = None
                            /\ after.state_requests_count = before.state_requests_count + 1
                      /\ (~external /\ o.peers # <<>>) =>
                            /\ spawned = 0
                            /\ Cardinality(HeaderRequests(w, s)) = 1
                            /\ \A k \in HeaderRequests(w, s) :
                                  /\ w.sent[k].peer_id \in Range(o.peers)
                                  /\ after.last_target = w.sent[k].peer_id
                      /\ (~external /\ o.peers = <<>>) =>
                            /\ spawned = 0
                            /\ w.sent = <<>>
                            /\ after = before
                            /\ after.run_me

\* a header slot asked for once and re-armed, and a call without peers that
\* leaves it armed
C32_Witness ==
    /\ ~external
    /\ StatusOf(sync_status, 0) = "StateDownloadHeader"
    /\ sync_status[0].downloads[1].state_requests_count = 1
    /\ \E o \in Calls :
          /\ o.peers = <<>>
          /\ StatusPass(o, 0).run
          /\ After(o).ss[0].downloads[1].run_me
          /\ After(o).ss[0].downloads[1].state_requests_count = 1

\* C33: an external part task posts an Ok completion only after the part
\* passed validate_state_part and its row was committed to the StateParts
\* store; a part that fails validation, or whose write fails, is never
\* reported as Ok, and a part that fails validation is never written.
C33_StoredBeforeOk ==
    /\ \A got \in BOOLEAN, valid \in BOOLEAN, committed \in BOOLEAN :
          LET r == download_and_store_part_from_external_storage(got, valid, committed)
          IN  /\ r.result = "StatePart" => got /\ valid /\ committed /\ r.written
              /\ ~valid => r.result = "Err" /\ ~r.written
              /\ ~committed => r.result = "Err"
    /\ \A t \in BagToSet(tasks) :
          t.part_id >= 0 =>
              /\ "StatePart" \in TaskResults(t) => t.stored
              /\ ~t.stored => TaskResults(t) = {"Err"}
    /\ \A k \in DOMAIN mpsc :
          mpsc[k].result = "StatePart" => mpsc[k].part_id >= 0

\* a part task has committed its row and has not yet posted its completion
C33_Witness ==
    \E t \in BagToSet(tasks) :
        /\ t.stored
        /\ TaskResults(t) = {"StatePart"}
        /\ <<t.sync_hash, t.shard_id, t.part_id>> \in state_parts

\* the external part fetch tasks that are running
PartTasks ==
    LET fetches == {t \in BagToSet(tasks) : t.part_id >= 0}
        count[T \in SUBSET fetches] ==
            IF T = {} THEN 0
            ELSE LET t == CHOOSE t \in T : TRUE
                 IN  CopiesIn(t, tasks) + count[T \ {t}]
    IN  count[fetches]

\* C34: semaphore permits are conserved: at all times the available permits
\* plus the number of running external part tasks is N; a task holds its
\* permit from launch until its completion message is posted and releases
\* it then, also when the fetch fails or the sync_hash has changed.
C34_PermitsConserved ==
    /\ permits >= 0
    /\ permits + PartTasks = NumPermits

\* the part task of the former anchor has posted a failure and its permit
\* is back
C34_Witness ==
    /\ sync_hash # "H1"
    /\ permits = NumPermits
    /\ \E k \in DOMAIN mpsc :
          /\ mpsc[k].sync_hash = "H1"
          /\ mpsc[k].part_id >= 0
          /\ mpsc[k].result = "Err"

\* the completion messages that can be pending for the shards of the call,
\* for the anchor of the call or another one
Pending ==
    {m \in [sync_hash : {sync_hash, "H1"}, shard_id : {0, 1}, part_id : -1..2,
             result : {"StateHeader", "StatePart", "Err"}] :
        /\ m.result = "StateHeader" => m.part_id = -1
        /\ m.result = "StatePart" => m.part_id >= 0}

\* the sequence q with its elements k and k + 1 exchanged
Exchanged(q, k) ==
    [j \in DOMAIN q |-> IF j = k THEN q[k + 1] ELSE IF j = k + 1 THEN q[k] ELSE q[j]]

\* C35: draining is order-independent: the completion messages pending at
\* the start of a run call yield the same shard statuses and the same slot
\* flags in whatever order they are drained.
C35_DrainCommutes ==
    /\ \A ok \in [Shards -> BOOLEAN] : \A k \in 1..(Len(mpsc) - 1) :
          drain(World, sync_hash, Exchanged(mpsc, k), ok).ss
              = drain(World, sync_hash, mpsc, ok).ss
    /\ \A m1 \in {m \in Pending : m.sync_hash = sync_hash /\ m.shard_id = 0},
          m2 \in Pending, ok1 \in BOOLEAN, ok2 \in BOOLEAN :
          process_message(process_message(World, sync_hash, m1, ok1), sync_hash, m2, ok2).ss
              = process_message(process_message(World, sync_hash, m2, ok2),
                                sync_hash, m1, ok1).ss

\* a failed and a successful header fetch of the same shard are pending
\* together
C35_Witness ==
    /\ Len(mpsc) = 2
    /\ mpsc[1].sync_hash = sync_hash /\ mpsc[2].sync_hash = sync_hash
    /\ mpsc[1].shard_id = mpsc[2].shard_id
    /\ mpsc[1].result # mpsc[2].result
    /\ StatusOf(sync_status, mpsc[1].shard_id) = "StateDownloadHeader"
    /\ ~sync_status[mpsc[1].shard_id].downloads[1].done

\* the world after the drain of a call with o
AfterDrain(o) == process_downloaded_parts(World, sync_hash, o.ok)

\* the handler of shard s fails in a call with o that comes to it
HandlerFails(o, s) ==
    \/ /\ StatusOf(sync_status, s) = "StateApplyInProgress"
       /\ apply_results[s] = "Err"
    \/ /\ StatusOf(sync_status, s) = "StateApplyFinalizing"
       /\ memtrie_results[s] = "Err" \/ (memtrie_results[s] = "Ok" /\ ~o.ok[s])
    \/ StatusOf(sync_status, s) \in {"ReshardingScheduling", "ReshardingApplying"}

\* what a call did for shard s: its record, its requests and its fetches
DoneFor(w, s) ==
    <<IF s \in DOMAIN w.ss THEN <<w.ss[s]>> ELSE <<>>,
      {k \in DOMAIN w.sent : w.sent[k].shard_id = s},
      {t \in BagToSet(w.tasks) : t.shard_id = s /\ CopiesIn(t, w.tasks) > CopiesIn(t, tasks)},
      w.apply_res[s], w.mem_res[s], s \in w.apply_reqs, s \in w.mem_reqs>>

\* C36: if the handler of a tracked shard fails in a run call, run returns
\* that error: the shards before it in tracking_shards keep what the call
\* did for them, the shards after it are neither advanced nor dispatched in
\* that call; the failure of a single download (fetch, validation, persist
\* of a header or part) never makes run return an error.
C36_FirstError ==
    /\ \A o \in Calls :
          LET w == After(o)
              first == o.tracking[1]
              second == o.tracking[2]
              w1 == shard_step(AfterDrain(o), first, sync_hash, o)
          IN  /\ AfterDrain(o).err = ""
              /\ w.err # "" <=> \E s \in Range(o.tracking) : HandlerFails(o, s)
              /\ HandlerFails(o, first) =>
                    /\ run_result(w) \in {"Err", "Fatal"}
                    /\ DoneFor(w, second) = DoneFor(AfterDrain(o), second)
              /\ (~HandlerFails(o, first) /\ HandlerFails(o, second)) =>
                    /\ run_result(w) \in {"Err", "Fatal"}
                    /\ DoneFor(w, first) = DoneFor(w1, first)
    /\ \A s \in DOMAIN sync_status : \A r \in Responses : \A ok \in BOOLEAN :
          update_download_on_state_response_message(World, s, sync_hash, r, ok).err = ""

\* the first shard's handler is about to fail while the second shard has a
\* timed-out request to repeat
C36_Witness ==
    /\ StatusOf(sync_status, 0) = "StateApplyFinalizing"
    /\ memtrie_results[0] = "Err"
    /\ StatusOf(sync_status, 1) = "StateDownloadParts"
    /\ \E i \in Slots(sync_status[1]) :
          ~sync_status[1].downloads[i].done /\ sync_status[1].downloads[i].elapsed > Timeout

\* C37: the dispatcher issues no request, to a peer or to external storage,
\* for a slot that is done when the call turns to the requests of its shard.
C37_NoRequestWhenDone ==
    \A o \in Calls : \A s \in Range(o.tracking) :
        LET d == AtDispatch(o, s).ss[s] IN
        (After(o).err = "" /\ d.status \in {"StateDownloadHeader", "StateDownloadParts"}) =>
            \A i \in Slots(d) :
                Dispatches(o, s, i, d) > 0 => ~d.downloads[i].done

\* the arms of the match of sync_shards_status that replace the status
Transitions ==
    {<<"StateDownloadHeader", "StateDownloadParts">>,
     <<"StateDownloadParts", "StateApplyScheduling">>,
     <<"StateApplyScheduling", "StateApplyInProgress">>,
     <<"StateApplyScheduling", "StateDownloadHeader">>,
     <<"StateApplyInProgress", "StateApplyFinalizing">>,
     <<"StateApplyFinalizing", "StateSyncDone">>,
     <<"StateApplyFinalizing", "ReshardingScheduling">>,
     <<"StateApplyFinalizing", "StateDownloadHeader">>}

\* the requests and fetches of a call for shard s
RequestsFor(w, s) ==
    Cardinality({k \in DOMAIN w.sent : w.sent[k].shard_id = s})
      + Cardinality({t \in BagToSet(w.tasks) :
                        t.shard_id = s /\ CopiesIn(t, w.tasks) > CopiesIn(t, tasks)})

\* C38: a run call changes the status of each shard by at most one
\* transition: a shard whose header is done moves to StateDownloadParts and
\* no further, and its part requests go out in the same call; a shard reset
\* to StateDownloadHeader gets a fresh armed header slot and no request in
\* that call, its first header request being issued by the following call.
C38_OneTransition ==
    \A o \in Calls : \A s \in Range(o.tracking) :
        LET w == After(o)
            before == StatusOf(sync_status, s)
            after == StatusOf(w.ss, s)
            d == AtDispatch(o, s).ss[s]
        IN  /\ s \in DOMAIN sync_status =>
                  after = before \/ <<before, after>> \in Transitions
            /\ (s \in DOMAIN sync_status /\ before = "StateDownloadHeader"
                    /\ after = "StateDownloadParts") =>
                  /\ Len(w.ss[s].downloads) = NumStateParts(s)
                  /\ \A i \in Slots(w.ss[s]) :
                        \/ Dispatches(o, s, i, d) = 1
                        \/ /\ i > MAX_STATE_PART_REQUEST
                           /\ w.ss[s].downloads[i] = new_download_status
            /\ (s \in DOMAIN sync_status /\ before # "StateDownloadHeader"
                    /\ after = "StateDownloadHeader") =>
                  /\ w.ss[s] = new_download_state_header
                  /\ RequestsFor(w, s) = 0
            /\ (s \in DOMAIN sync_status /\ sync_status[s] = new_download_state_header
                    /\ AfterDrain(o).ss[s] = sync_status[s]
                    /\ w.err = ""
                    /\ (external \/ o.peers # <<>>)) =>
                  /\ after = "StateDownloadHeader"
                  /\ Dispatches(o, s, 1, d) = 1

\* a shard in StateApplyScheduling that a call whose scheduling fails resets
C38_Witness ==
    /\ StatusOf(sync_status, 0) = "StateApplyScheduling"
    /\ \E o \in Calls : /\ 0 \in Range(o.tracking)
                        /\ ~o.ok[0]
                        /\ After(o).ss[0] = new_download_state_header

\* the call with o comes to the assert! of request_shard_header for shard s:
\* the status pass asks for the download of a header and there is a peer
AtAssert(o, s) ==
    LET r == StatusPass(o, s) IN
    /\ ~external
    /\ o.peers # <<>>
    /\ r.w.err = ""
    /\ r.run
    /\ r.w.ss[s].status = "StateDownloadHeader"

\* C39: the assertion in request_shard_header never fails: whenever a call
\* comes to send a header request to a peer, run_me of the header slot is
\* true, the request is sent and the call does not panic, whether the record
\* is new, reset, re-armed or armed by a RouteNotFound continuation.
C39_AssertHolds ==
    \A o \in Calls : \A s \in Range(o.tracking) :
        AtAssert(o, s) =>
            /\ AtDispatch(o, s).ss[s].downloads[1].run_me
            /\ LET w == request_shard(AtDispatch(o, s), s, sync_hash, o.peers, o.pick[s])
               IN  /\ w.err = ""
                   /\ ~w.ss[s].downloads[1].run_me
                   /\ \E k \in DOMAIN w.sent :
                         w.sent[k] = [kind |-> "StateRequestHeader", shard_id |-> s,
                                      part_id |-> -1, peer_id |-> o.pick[s]]

\* a header slot with a request behind it whose continuation is pending,
\* timed out, in a call that sends the header request again
C39_Witness ==
    /\ ~external
    /\ StatusOf(sync_status, 0) = "StateDownloadHeader"
    /\ sync_status[0].downloads[1].state_requests_count > 0
    /\ sync_status[0].downloads[1].elapsed > Timeout
    /\ [shard_id |-> 0, slot |-> 1] \in conts
    /\ \E o \in Calls : 0 \in Range(o.tracking) /\ AtAssert(o, 0)

\* every tracked shard is in StateSyncDone and run returns Completed
Finished ==
    /\ \A s \in Range(tracking_shards) : StatusOf(sync_status, s) = "StateSyncDone"
    /\ \A o \in EndCalls : run_result(After(o)) = "Completed"

\* some slot that is not done has had no request
Unrequested ==
    \E x \in AllSlots(sync_status) :
        /\ ~sync_status[x[1]].downloads[x[2]].done
        /\ sync_status[x[1]].downloads[x[2]].state_requests_count = 0

\* calls with a peer to ask keep coming
PeersFair == []<>~RunDueWith(PeerCalls) \/ []<><<RunPeers>>_vars

=============================================================================
